---- MODULE Spec2Model ----
(***************************************************************************)
(* A model of the no-hitter forecaster: the prediction engine              *)
(* (src/src/algorithm/predictor.py), its three condition analyzers         *)
(* (src/src/data/weather.py, pitcher_analysis.py, stadium_analysis.py)     *)
(* and the candidate selector with its three source tiers.                 *)
(*                                                                         *)
(* Arithmetic.  The program computes in binary floating point.  The model  *)
(* computes in decimal fixed point:                                        *)
(*   - probabilities and the base rate in units of 1e-6 ("ppm"),           *)
(*   - multiplicative factors in units of 1e-3 ("milli"),                  *)
(*   - pitching rates (ERA, WHIP, K/9, innings) in units of 1e-2,          *)
(*   - park friendliness scores in units of 1e-1.                          *)
(* A product is formed left to right, as the program forms it, and is      *)
(* truncated to its unit after every multiplication.                       *)
(***************************************************************************)
EXTENDS Integers, Sequences, FiniteSets, TLC

VARIABLES
    data_file,          \* contents of data/no_hitters.csv: a table, or Missing
    weather_patterns,   \* NoHitterPredictor.weather_patterns
    pitcher_patterns,   \* NoHitterPredictor.pitcher_patterns
    stadium_patterns,   \* NoHitterPredictor.stadium_patterns
    base_rate,          \* NoHitterPredictor.base_rate
    monthly_factors,    \* NoHitterPredictor.monthly_factors
    date_factors,       \* NoHitterPredictor.date_factors
    decadal_weights,    \* NoHitterPredictor.decadal_weights
    npredictions,       \* number of prediction calls made on this engine
    result,             \* outcome of the last prediction call
    calls,              \* the calls the last prediction made, in order
    candidates,         \* the candidates the selector gave the last prediction
    degraded,           \* the analyzer steps that raised in the last prediction
    predictions_file,   \* contents of data/daily_predictions.json
    cache_file,         \* contents of the cache file of one analyzer
    runs,               \* the derive-patterns calls in progress on that file
    cache_refresh,      \* contents of data/cache_refresh.txt, or NoSignal
    scheduler,          \* NoHitterScheduler: started or not, and its last run
    input,              \* argument of a function under study
    output              \* its value

vars == <<data_file, weather_patterns, pitcher_patterns, stadium_patterns,
          base_rate, monthly_factors, date_factors, decadal_weights,
          npredictions, result, calls, candidates, degraded,
          predictions_file, cache_file, runs, cache_refresh, scheduler,
          input, output>>

engine_vars == <<weather_patterns, pitcher_patterns, stadium_patterns,
                 base_rate, monthly_factors, date_factors, decadal_weights>>

-----------------------------------------------------------------------------
(* Values shared by the whole model *)

\* Python's None, where the other values are records
None == [none |-> TRUE]

\* the outcome of a call that raised, and of one that returned
Raised == [raised |-> TRUE]

Returned(factor, info) == [raised |-> FALSE, factor |-> factor, info |-> info]

EmptyMap == [x \in {} |-> 0]

Min(a, b) == IF b < a THEN b ELSE a

Max(a, b) == IF b > a THEN b ELSE a

\* Op(arg) with the argument evaluated once, before the call, as Python does
Call(Op(_), arg) == CHOOSE out \in { Op(v) : v \in {arg} } : TRUE

\* v * f for a factor f in milli, truncated to the unit of v
Mul(v, f) == (v * f) \div 1000

\* the number 1.0 as a factor
One == 1000

\* factor = 1.0, then factor *= m for each multiplier of ms in turn, in milli
RECURSIVE ProductUpTo(_, _)
ProductUpTo(ms, n) == IF n = 0 THEN One ELSE Mul(ProductUpTo(ms, n - 1), ms[n])

Product(ms) == Call(LAMBDA v : ProductUpTo(v, Len(v)), ms)

RECURSIVE SeqSum(_)
SeqSum(s) == IF s = <<>> THEN 0 ELSE Head(s) + SeqSum(Tail(s))

RECURSIVE SetSum(_, _)
SetSum(f, S) ==
    IF S = {} THEN 0
    ELSE LET x == CHOOSE y \in S : TRUE IN f[x] + SetSum(f, S \ {x})

-----------------------------------------------------------------------------
(* Calendar dates: records [y, m, d] *)

Date(y, m, d) == [y |-> y, m |-> m, d |-> d]

IsLeap(y) == (y % 4 = 0) /\ ((y % 100 # 0) \/ (y % 400 = 0))

DaysBeforeMonth(y, m) ==
    LET cum == <<0, 31, 59, 90, 120, 151, 181, 212, 243, 273, 304, 334>>
    IN cum[m] + (IF m > 2 /\ IsLeap(y) THEN 1 ELSE 0)

\* date.toordinal(): day 1 is 0001-01-01
toordinal(dt) ==
    LET y1 == dt.y - 1
    IN y1 * 365 + (y1 \div 4) - (y1 \div 100) + (y1 \div 400)
       + DaysBeforeMonth(dt.y, dt.m) + dt.d

DateLess(a, b) == toordinal(a) < toordinal(b)

-----------------------------------------------------------------------------
(* The historical table *)

Event(dt, pitcher, team) == [date |-> dt, pitcher |-> pitcher, team |-> team]

\* rows of the comprehensive table of collector.py, ascending by date
AllEvents ==
    << Event(Date(2001, 4, 27), "Hideo Nomo", "BOS"),
       Event(Date(2019, 9, 28), "Mike Fiers", "OAK"),
       Event(Date(2021, 6, 2), "Spencer Turnbull", "DET") >>

MaxEvents == 2

\* the tables: the rows of AllEvents kept in order, at most MaxEvents of them
RECURSIVE SubSeqs(_)
SubSeqs(s) ==
    IF s = <<>> THEN { <<>> }
    ELSE LET rest == SubSeqs(Tail(s))
         IN rest \cup { <<Head(s)>> \o t : t \in rest }

Tables == { t \in SubSeqs(AllEvents) : Len(t) <= MaxEvents }

\* the file data/no_hitters.csv: absent or unreadable, or holding a table
Missing == [ok |-> FALSE, rows |-> <<>>]

\* data/daily_predictions.json absent or unreadable, and holding a mapping
NoPredictions == [ok |-> FALSE, predictions |-> EmptyMap]

Stored(predictions) == [ok |-> TRUE, predictions |-> predictions]

\* data/cache_refresh.txt absent, and holding the time of a signal
NoSignal == [written |-> FALSE]

Signal(now) == [written |-> TRUE, at |-> now]

\* the scheduler before start_scheduler
NotStarted == [started |-> FALSE, steps |-> <<>>]

\* the cache file of an analyzer absent or unreadable, and holding a mapping
NoCache == [ok |-> FALSE, entries |-> EmptyMap]

Cached(entries) == [ok |-> TRUE, entries |-> entries]

File(t) == [ok |-> TRUE, rows |-> t]

\* what NoHitterDataCollector.update_data() writes: the rows of the
\* collector's table in date order
update_data == File(SubSeq(AllEvents, 1, Min(MaxEvents, Len(AllEvents))))

\* load_data() as it would be if an unreadable file gave an empty table
load_data_or_empty(file) == [raised |-> FALSE, df |-> file.rows]

\* pd.read_csv + pd.to_datetime: the table, or an error when the file is
\* missing or unreadable
load_data(file) == [raised |-> ~file.ok, df |-> file.rows]

-----------------------------------------------------------------------------
(* The five historical factors *)

TotalSeasonDays == 27000

\* 1 - exp(-lambda), lambda = len(df) / total_season_days, in ppm
\* (second-order expansion; lambda is below 0.05 for every table)
calculate_base_rate(df) ==
    LET lambda_daily == (Len(df) * 1000000) \div TotalSeasonDays
    IN lambda_daily - ((lambda_daily * lambda_daily) \div 2000000)

SeasonMonths == 4 .. 10

MonthCount(df, m) == Cardinality({ i \in DOMAIN df : df[i].date.m = m })

\* self.monthly_factors after calculate_monthly_factors(df)
calculate_monthly_factors(old, df) ==
    LET n == Len(df)
    IN [ m \in (DOMAIN old) \cup SeasonMonths |->
           IF m \in SeasonMonths
           THEN (IF n > 0 THEN (MonthCount(df, m) * 7 * 1000) \div n ELSE One)
           ELSE old[m] ]

high_freq_dates == { <<4, 27>>, <<5, 15>>, <<9, 20>>, <<9, 28>> }

DateCount(df, md) ==
    Cardinality({ i \in DOMAIN df : <<df[i].date.m, df[i].date.d>> = md })

\* calculate_date_factors(df) as it would be without the floor of 1.0
calculate_date_factors_unfloored(old, df) ==
    LET n == Len(df)
    IN [ md \in (DOMAIN old) \cup high_freq_dates |->
           IF md \in high_freq_dates
           THEN (IF n > 0 THEN (DateCount(df, md) * 365 * 1000) \div n ELSE One)
           ELSE old[md] ]

\* self.date_factors after calculate_date_factors(df)
calculate_date_factors(old, df) ==
    LET n == Len(df)
    IN [ md \in (DOMAIN old) \cup high_freq_dates |->
           IF md \in high_freq_dates
           THEN Max(IF n > 0 THEN (DateCount(df, md) * 365 * 1000) \div n ELSE One,
                    One)
           ELSE old[md] ]

Decade(y) == (y \div 10) * 10

\* datetime.now().year
CurrentYear == 2025

\* exp(-k/5) in milli for k = 0 .. 15 decades ago (exp(-years_ago / 50))
ExpDecay(k) ==
    LET tab == <<1000, 819, 670, 549, 449, 368, 301, 247,
                 202, 165, 135, 111, 91, 74, 61, 50>>
    IN IF k < 0 THEN 1221 ELSE IF k > 15 THEN 0 ELSE tab[k + 1]

\* self.decadal_weights after calculate_decadal_weights(df): the decades of
\* the table get a fresh weight, entries of earlier calls are kept, and
\* every entry is divided by the total
calculate_decadal_weights(old, df) ==
    LET decades == { Decade(df[i].date.y) : i \in DOMAIN df }
        current_decade == Decade(CurrentYear)
        raw == [ dec \in (DOMAIN old) \cup decades |->
                   IF dec \in decades
                   THEN ExpDecay((current_decade - dec) \div 10)
                   ELSE old[dec] ]
        total_weight == SetSum(raw, DOMAIN raw)
    IN [ dec \in DOMAIN raw |-> (raw[dec] * 1000) \div total_weight ]

\* min(adjustment, 2.0) as it would be without the cap
RecencyUncapped(adjustment) == adjustment

\* min(adjustment, 2.0)
RecencyCap(adjustment) == Min(adjustment, 2000)

\* calculate_recency_adjustment(df, target_date), in milli.  The mean of the
\* consecutive row differences is span / (n - 1); with one row it is NaN and
\* every comparison with it is false; with a zero mean the quotient is
\* infinite and the cap applies.
calculate_recency_adjustment(df, target_date) ==
    LET recent == { i \in DOMAIN df : DateLess(df[i].date, target_date) }
    IN IF recent = {} THEN One
       ELSE
         LET last == CHOOSE i \in recent :
                        \A j \in recent :
                           toordinal(df[j].date) <= toordinal(df[i].date)
             days_since_last == toordinal(target_date) - toordinal(df[last].date)
             n == Len(df)
             span == SeqSum([ i \in 1 .. (n - 1) |->
                        toordinal(df[i + 1].date) - toordinal(df[i].date) ])
             adjustment ==
                 IF n < 2 THEN One
                 ELSE IF days_since_last * (n - 1) > span
                      THEN (IF span = 0 THEN 2000
                            ELSE One + ((days_since_last * (n - 1) - span) * 100)
                                          \div span)
                      ELSE One
         IN RecencyCap(adjustment)

-----------------------------------------------------------------------------
(* WeatherAnalyzer (weather.py) *)

\* a weather sample
Weather(t, h, w, p) ==
    [temperature |-> t, humidity |-> h, wind_speed |-> w, precipitation |-> p]

\* the part of the weather pattern summary that the factor reads
ideal_conditions ==
    [temperature |-> <<65, 80>>, humidity |-> <<30, 60>>, wind_speed |-> <<3, 10>>]

WeatherPatternSummary == [ideal_conditions |-> ideal_conditions]

\* the metrics calculate_weather_factor reads by subscript: a sample
\* without one of them raises KeyError
WeatherMetrics == {"temperature", "humidity", "wind_speed", "precipitation"}

\* the factor a factor function returns
Factor(factor) == [raised |-> FALSE, factor |-> factor]

\* the precipitation step as it would be without the boost for clear weather
PrecipitationPenaltyOnly(precipitation) == IF precipitation = 0 THEN One ELSE 600

\* the precipitation step: 1.25 for clear weather, 0.6 otherwise
PrecipitationStep(precipitation) == IF precipitation = 0 THEN 1250 ELSE 600

\* max(0.5, min(2.0, factor))
WeatherCap(factor) == Max(500, Min(2000, factor))

\* WeatherAnalyzer.calculate_weather_factor(current_weather, patterns): the
\* factor, or Raised
weather_calculate_weather_factor(current_weather, patterns) ==
    IF current_weather = None \/ patterns = None THEN Factor(One)
    ELSE IF ~(WeatherMetrics \subseteq DOMAIN current_weather) THEN Raised
    ELSE
      LET ideal == patterns.ideal_conditions
          temp == current_weather.temperature
          humidity == current_weather.humidity
          wind == current_weather.wind_speed
          temp_step ==
              IF ideal.temperature[1] <= temp /\ temp <= ideal.temperature[2]
              THEN 1200
              ELSE IF temp < 50 \/ temp > 90 THEN 800 ELSE One
          humidity_step ==
              IF ideal.humidity[1] <= humidity /\ humidity <= ideal.humidity[2]
              THEN 1150
              ELSE IF humidity > 80 THEN 900 ELSE One
          wind_step ==
              IF ideal.wind_speed[1] <= wind /\ wind <= ideal.wind_speed[2]
              THEN 1100
              ELSE IF wind > 20 THEN 850 ELSE One
          precipitation_step == PrecipitationStep(current_weather.precipitation)
      IN Factor(WeatherCap(Product(<<temp_step, humidity_step, wind_step,
                                     precipitation_step>>)))

-----------------------------------------------------------------------------
(* PitcherPerformanceAnalyzer (pitcher_analysis.py) *)

\* the form statistics of a pitcher: rates in units of 1e-2
FormStats(era, whip, k9, qs) ==
    [recent_era |-> era, recent_whip |-> whip, k_per_nine |-> k9,
     quality_starts |-> qs]

\* dict.get(key, default)
Get(rec, key, default) == IF key \in DOMAIN rec THEN rec[key] ELSE default

\* the part of the pitcher pattern summary that the factor reads
PitcherPatternSummary(era, whip, k9, qs) ==
    [form_thresholds |->
        [era_threshold |-> era, whip_threshold |-> whip,
         k_rate_threshold |-> k9, quality_starts_threshold |-> qs]]

\* PitcherPerformanceAnalyzer.calculate_pitcher_form_factor(stats, patterns)
calculate_pitcher_form_factor(current_pitcher_stats, patterns) ==
    IF current_pitcher_stats = None \/ patterns = None THEN One
    ELSE
      LET thresholds == patterns.form_thresholds
          era == Get(current_pitcher_stats, "recent_era", 400)
          whip == Get(current_pitcher_stats, "recent_whip", 140)
          k9 == Get(current_pitcher_stats, "k_per_nine", 700)
          qs == Get(current_pitcher_stats, "quality_starts", 1)
          era_step == IF era <= thresholds.era_threshold THEN 1300
                      ELSE IF era > 450 THEN 800 ELSE One
          whip_step == IF whip <= thresholds.whip_threshold THEN 1200
                       ELSE IF whip > 150 THEN 850 ELSE One
          k_step == IF k9 >= thresholds.k_rate_threshold THEN 1150 ELSE One
          qs_step == IF qs >= thresholds.quality_starts_threshold
                     THEN 1100 ELSE One
          hot_step == IF era <= 250 /\ whip <= 100 /\ qs >= 2 THEN 1400 ELSE One
      IN Max(600, Min(2500, Product(<<era_step, whip_step, k_step, qs_step,
                                      hot_step>>)))

-----------------------------------------------------------------------------
(* StadiumEnvironmentAnalyzer (stadium_analysis.py) *)

Stadium(name, type, altitude, foul, surface, characteristics) ==
    [stadium |-> name, type |-> type, altitude |-> altitude,
     dimensions |-> [foul_territory |-> foul], surface |-> surface,
     characteristics |-> characteristics]

\* rows of StadiumEnvironmentAnalyzer.stadium_data
stadium_data ==
    [ team \in
          {"BAL", "BOS", "NYY", "TB", "TOR", "CWS", "CLE", "DET",
          "KC", "MIN", "HOU", "LAA", "OAK", "SEA", "TEX", "ATL",
          "MIA", "NYM", "PHI", "WSN", "CHC", "CIN", "MIL", "PIT",
          "STL", "ARI", "COL", "LAD", "SD", "SF", "MON", "CAL"} |->
        CASE team = "BAL" ->
               Stadium("Oriole Park at Camden Yards", "outdoor", 33, "small", "grass",
                       {"pitcher_friendly", "brick_warehouse", "short_right_field"})
          [] team = "BOS" ->
               Stadium("Fenway Park", "outdoor", 20, "very_small", "grass",
                       {"hitter_friendly", "green_monster", "pesky_pole", "historic"})
          [] team = "NYY" ->
               Stadium("Yankee Stadium", "outdoor", 55, "small", "grass",
                       {"hitter_friendly", "short_porch", "modern"})
          [] team = "TB" ->
               Stadium("Tropicana Field", "dome", 15, "large", "artificial_turf",
                       {"pitcher_friendly", "artificial_turf", "catwalks", "fixed_dome"})
          [] team = "TOR" ->
               Stadium("Rogers Centre", "retractable_dome", 300, "large", "artificial_turf",
                       {"neutral", "artificial_turf", "retractable_roof"})
          [] team = "CWS" ->
               Stadium("Guaranteed Rate Field", "outdoor", 595, "average", "grass",
                       {"neutral", "wind_patterns"})
          [] team = "CLE" ->
               Stadium("Progressive Field", "outdoor", 660, "average", "grass",
                       {"pitcher_friendly", "wind_off_lake"})
          [] team = "DET" ->
               Stadium("Comerica Park", "outdoor", 585, "large", "grass",
                       {"pitcher_friendly", "deep_center", "large_foul_territory"})
          [] team = "KC" ->
               Stadium("Kauffman Stadium", "outdoor", 750, "large", "grass",
                       {"pitcher_friendly", "fountains", "large_foul_territory"})
          [] team = "MIN" ->
               Stadium("Target Field", "outdoor", 815, "average", "grass",
                       {"neutral", "cold_weather"})
          [] team = "HOU" ->
               Stadium("Minute Maid Park", "retractable_dome", 22, "small", "grass",
                       {"quirky", "crawford_boxes", "deep_center", "retractable_roof"})
          [] team = "LAA" ->
               Stadium("Angel Stadium", "outdoor", 150, "large", "grass",
                       {"pitcher_friendly", "large_foul_territory", "marine_layer"})
          [] team = "OAK" ->
               Stadium("Oakland Coliseum", "outdoor", 6, "massive", "grass",
                       {"pitcher_friendly", "massive_foul_territory", "marine_layer"})
          [] team = "SEA" ->
               Stadium("T-Mobile Park", "retractable_dome", 15, "average", "grass",
                       {"pitcher_friendly", "marine_layer", "retractable_roof"})
          [] team = "TEX" ->
               Stadium("Globe Life Field", "retractable_dome", 550, "average", "grass",
                       {"modern", "retractable_roof", "hot_climate"})
          [] team = "ATL" ->
               Stadium("Truist Park", "outdoor", 1050, "average", "grass",
                       {"modern", "higher_altitude", "humid_climate"})
          [] team = "MIA" ->
               Stadium("loanDepot park", "retractable_dome", 8, "average", "grass",
                       {"modern", "retractable_roof", "tropical_climate"})
          [] team = "NYM" ->
               Stadium("Citi Field", "outdoor", 20, "average", "grass",
                       {"pitcher_friendly", "marine_breeze"})
          [] team = "PHI" ->
               Stadium("Citizens Bank Park", "outdoor", 50, "average", "grass",
                       {"hitter_friendly", "short_dimensions"})
          [] team = "WSN" ->
               Stadium("Nationals Park", "outdoor", 50, "average", "grass",
                       {"neutral", "modern"})
          [] team = "CHC" ->
               Stadium("Wrigley Field", "outdoor", 595, "small", "grass",
                       {"historic", "wind_patterns", "ivy_walls", "small_foul_territory"})
          [] team = "CIN" ->
               Stadium("Great American Ball Park", "outdoor", 550, "average", "grass",
                       {"hitter_friendly", "riverfront", "gaps"})
          [] team = "MIL" ->
               Stadium("American Family Field", "retractable_dome", 635, "average", "grass",
                       {"neutral", "retractable_roof", "cold_climate"})
          [] team = "PIT" ->
               Stadium("PNC Park", "outdoor", 730, "average", "grass",
                       {"pitcher_friendly", "river_setting", "short_right_field"})
          [] team = "STL" ->
               Stadium("Busch Stadium", "outdoor", 465, "average", "grass",
                       {"neutral", "modern"})
          [] team = "ARI" ->
               Stadium("Chase Field", "retractable_dome", 1100, "large", "grass",
                       {"pitcher_friendly", "retractable_roof", "dry_heat", "altitude"})
          [] team = "COL" ->
               Stadium("Coors Field", "outdoor", 5200, "large", "grass",
                       {"extreme_hitter_friendly", "high_altitude", "thin_air", "large_dimensions"})
          [] team = "LAD" ->
               Stadium("Dodger Stadium", "outdoor", 340, "large", "grass",
                       {"pitcher_friendly", "large_foul_territory", "marine_layer"})
          [] team = "SD" ->
               Stadium("Petco Park", "outdoor", 60, "large", "grass",
                       {"extreme_pitcher_friendly", "marine_layer", "cool_weather", "large_foul_territory"})
          [] team = "SF" ->
               Stadium("Oracle Park", "outdoor", 8, "large", "grass",
                       {"pitcher_friendly", "marine_layer", "cold_weather", "mccovey_cove", "wind_patterns"})
          [] team = "MON" ->
               Stadium("Olympic Stadium", "dome", 180, "large", "artificial_turf",
                       {"artificial_turf", "fixed_dome", "neutral"})
          [] team = "CAL" ->
               Stadium("Angel Stadium", "outdoor", 150, "large", "grass",
                       {"pitcher_friendly", "large_foul_territory"}) ]

\* the record returned for a team that stadium_data does not hold: it has no
\* dimensions
default_stadium ==
    [stadium |-> "Unknown Stadium", type |-> "outdoor", altitude |-> 500,
     characteristics |-> {"neutral"}, surface |-> "grass"]

get_stadium_characteristics(team) ==
    IF team \in DOMAIN stadium_data THEN stadium_data[team] ELSE default_stadium

categorize_altitude(altitude) ==
    IF altitude < 100 THEN "sea_level"
    ELSE IF altitude < 500 THEN "low"
    ELSE IF altitude < 1000 THEN "moderate"
    ELSE IF altitude < 2000 THEN "high"
    ELSE "extreme"

\* 'dome' in stadium_type
IsDomeType(type) == type \in {"dome", "retractable_dome"}

FoulTerritory(chars) ==
    IF "dimensions" \in DOMAIN chars
    THEN Get(chars.dimensions, "foul_territory", "average")
    ELSE "average"

\* calculate_pitcher_friendliness(stadium_chars): a score in tenths, 0 .. 100
calculate_pitcher_friendliness(chars) ==
    LET characteristics == Get(chars, "characteristics", {})
        foul == FoulTerritory(chars)
        character_step ==
            IF "pitcher_friendly" \in characteristics THEN 20
            ELSE IF "extreme_pitcher_friendly" \in characteristics THEN 30
            ELSE IF "hitter_friendly" \in characteristics THEN 0 - 20
            ELSE IF "extreme_hitter_friendly" \in characteristics THEN 0 - 30
            ELSE 0
        foul_step == IF foul = "massive" THEN 15
                     ELSE IF foul = "large" THEN 10
                     ELSE IF foul = "small" THEN 0 - 5
                     ELSE IF foul = "very_small" THEN 0 - 10
                     ELSE 0
        surface_step ==
            IF Get(chars, "surface", "") = "artificial_turf" THEN 3 ELSE 0
        dome_step == IF IsDomeType(Get(chars, "type", "")) THEN 5 ELSE 0
    IN Max(0, Min(100, 50 + character_step + foul_step + surface_step
                         + dome_step))

\* the part of the stadium pattern summary that the factor reads: the dome
\* share in percent, the mean friendliness in tenths, and the counts of
\* events by foul territory and by surface
StadiumPatternSummary(dome_pct, average, large, small, avg, grass, turf) ==
    [dome_preference |-> [dome_pct |-> dome_pct],
     pitcher_friendliness |-> [average |-> average],
     foul_territory_impact |->
        [large_or_massive |-> large, small_or_very_small |-> small,
         average |-> avg],
     surface_distribution |-> [grass |-> grass, artificial_turf |-> turf]]

StadiumInfo(chars, score) ==
    [stadium |-> chars.stadium, type |-> chars.type, altitude |-> chars.altitude,
     altitude_category |-> categorize_altitude(chars.altitude),
     pitcher_friendliness_score |-> score,
     characteristics |-> chars.characteristics]

\* StadiumEnvironmentAnalyzer.calculate_stadium_factor(team, current_conditions,
\* patterns), current_conditions = {'weather': weather}: the factor with the
\* stadium info, or Raised
stadium_calculate_stadium_factor(team, weather, patterns) ==
    IF patterns = None THEN Returned(One, None)
    ELSE
      LET chars == get_stadium_characteristics(team)
          altitude_cat == categorize_altitude(chars.altitude)
          foul_impact == patterns.foul_territory_impact
          foul_total == foul_impact.large_or_massive
                          + foul_impact.small_or_very_small + foul_impact.average
          surface_total == patterns.surface_distribution.grass
                             + patterns.surface_distribution.artificial_turf
          pitcher_score == calculate_pitcher_friendliness(chars)
          avg_score == patterns.pitcher_friendliness.average
          foul == FoulTerritory(chars)
          altitude_step ==
              IF altitude_cat = "extreme" THEN 600
              ELSE IF altitude_cat = "high" THEN 800
              ELSE IF altitude_cat \in {"moderate", "low"} THEN 1100
              ELSE 1050
          dome_step ==
              IF IsDomeType(chars.type) /\ patterns.dome_preference.dome_pct > 25
              THEN 1150 ELSE One
          friendliness_step ==
              IF pitcher_score > avg_score + 10 THEN 1200
              ELSE IF pitcher_score > avg_score THEN 1100
              ELSE IF pitcher_score < avg_score - 10 THEN 850
              ELSE One
          foul_step ==
              IF foul \in {"large", "massive"}
                 /\ foul_impact.large_or_massive * 10 > 4 * foul_total
              THEN 1150
              ELSE IF foul \in {"small", "very_small"} THEN 900 ELSE One
          surface_step ==
              IF chars.surface = "artificial_turf"
                 /\ patterns.surface_distribution.artificial_turf * 5
                      > surface_total
              THEN 1050 ELSE One
          weather_step ==
              IF IsDomeType(chars.type) /\ weather.precipitation > 0
              THEN 1100 ELSE One
          factor == Product(<<altitude_step, dome_step, friendliness_step,
                              foul_step, surface_step, weather_step>>)
      IN IF foul_total = 0 THEN Raised
         ELSE IF chars.surface = "artificial_turf" /\ surface_total = 0 THEN Raised
         ELSE IF IsDomeType(chars.type) /\ weather = None THEN Raised
         ELSE Returned(Max(500, Min(2000, factor)),
                       StadiumInfo(chars, pitcher_score))

-----------------------------------------------------------------------------
(* NoHitterPredictor: the three generic condition factors *)

\* calculate_weather_factor() as it would be without its try
calculate_weather_factor_uncaught(current_weather, patterns) ==
    IF current_weather = Raised THEN Raised
    ELSE IF current_weather # None /\ patterns # None
         THEN Returned(weather_calculate_weather_factor(current_weather,
                                                        patterns).factor,
                       current_weather)
         ELSE Returned(One, None)

\* calculate_weather_factor() as it would be if it reported the sample
\* whether or not a pattern summary is held
calculate_weather_factor_reporting_sample(current_weather, patterns) ==
    IF current_weather = Raised THEN Returned(One, None)
    ELSE IF current_weather # None
         THEN IF weather_calculate_weather_factor(current_weather, patterns).raised
              THEN Returned(One, None)
              ELSE Returned(weather_calculate_weather_factor(current_weather,
                                                             patterns).factor,
                            current_weather)
         ELSE Returned(One, None)

\* calculate_weather_factor() as it would be if it fell back to the ideal
\* conditions when no pattern summary is held
calculate_weather_factor_with_ideal(current_weather, patterns) ==
    IF current_weather = Raised THEN Returned(One, None)
    ELSE IF current_weather # None
         THEN Returned(weather_calculate_weather_factor(
                           current_weather,
                           IF patterns # None THEN patterns
                           ELSE WeatherPatternSummary).factor,
                       IF patterns # None THEN current_weather ELSE None)
         ELSE Returned(One, None)

\* NoHitterPredictor.calculate_weather_factor(): current_weather is what
\* get_current_weather('NYY') gave, or Raised when the step raised
calculate_weather_factor(current_weather, patterns) ==
    IF current_weather = Raised THEN Returned(One, None)
    ELSE IF current_weather # None /\ patterns # None
         THEN IF weather_calculate_weather_factor(current_weather, patterns).raised
              THEN Returned(One, None)
              ELSE Returned(weather_calculate_weather_factor(current_weather,
                                                             patterns).factor,
                            current_weather)
         ELSE Returned(One, None)

\* NoHitterPredictor.calculate_pitcher_factor(): current_pitcher_stats is
\* what simulate_current_pitcher_form() gave, or Raised
calculate_pitcher_factor(current_pitcher_stats, patterns) ==
    IF current_pitcher_stats = Raised THEN Returned(One, None)
    ELSE IF current_pitcher_stats # None
         THEN Returned(IF patterns # None
                       THEN calculate_pitcher_form_factor(current_pitcher_stats,
                                                          patterns)
                       ELSE One,
                       current_pitcher_stats)
         ELSE Returned(One, None)

sample_team == "NYY"

\* NoHitterPredictor.calculate_stadium_factor(): lookup_raises tells whether
\* the stadium lookup raised; self._current_weather is never set, so the
\* analyzer is handed {'weather': None}
calculate_stadium_factor(lookup_raises, patterns) ==
    IF lookup_raises THEN Returned(One, None)
    ELSE
      LET stadium_info == get_stadium_characteristics(sample_team)
      IN IF patterns # None
         THEN LET r == stadium_calculate_stadium_factor(sample_team, None, patterns)
              IN IF r.raised THEN Returned(One, None) ELSE r
         ELSE Returned(One,
                       StadiumInfo(stadium_info,
                                   calculate_pitcher_friendliness(stadium_info)))

-----------------------------------------------------------------------------
(* NoHitterPredictor: the candidate-specific factors *)

\* a faulty variant of EraStep: the recent ERA is not looked at
NoEraStep(recent_era) == One

\* the multiplier for the recent ERA (predictor.py 815-821)
EraStep(recent_era) ==
    IF recent_era <= 250 THEN 1500
    ELSE IF recent_era <= 350 THEN 1200
    ELSE IF recent_era >= 500 THEN 700
    ELSE One

\* a faulty variant of CapPitcherFactor: the cap at 1.5
CapPitcherFactorAtHalf(factor) == Max(500, Min(1500, factor))

\* max(0.5, min(3.0, factor))
CapPitcherFactor(factor) == Max(500, Min(3000, factor))

\* calculate_pitcher_specific_factor(pitcher_info), in milli
calculate_pitcher_specific_factor(pitcher_info) ==
    LET stats == pitcher_info.stats
        recent_era == Get(stats, "recent_era", 400)
        recent_whip == Get(stats, "recent_whip", 130)
        k_per_nine == Get(stats, "k_per_nine", 800)
        quality_starts == Get(stats, "quality_starts", 1)
        whip_step == IF recent_whip <= 100 THEN 1400
                     ELSE IF recent_whip <= 120 THEN 1100
                     ELSE IF recent_whip >= 150 THEN 800
                     ELSE One
        k_step == IF k_per_nine >= 1000 THEN 1300
                  ELSE IF k_per_nine >= 850 THEN 1100
                  ELSE IF k_per_nine <= 650 THEN 900
                  ELSE One
        qs_step == IF quality_starts >= 2 THEN 1200
                   ELSE IF quality_starts = 0 THEN 900
                   ELSE One
        hot_step ==
            IF recent_era <= 250 /\ recent_whip <= 100 /\ quality_starts >= 2
            THEN 1300 ELSE One
    IN CapPitcherFactor(Product(<<EraStep(recent_era), whip_step, k_step,
                                  qs_step, hot_step>>))

\* calculate_pitcher_stadium_factor(pitcher_info), in milli; any error in it
\* gives 1.0
calculate_pitcher_stadium_factor(pitcher_info) ==
    IF "team" \notin DOMAIN pitcher_info THEN One
    ELSE
      LET stadium_chars == get_stadium_characteristics(pitcher_info.team)
          altitude == Get(stadium_chars, "altitude", 0)
          friendliness == calculate_pitcher_friendliness(stadium_chars)
          altitude_step ==
              IF altitude > 3000 THEN 800
              ELSE IF Get(stadium_chars, "type", "") = "dome" THEN 1100
              ELSE One
          friendliness_step == IF friendliness >= 70 THEN 1150
                               ELSE IF friendliness >= 60 THEN 1050
                               ELSE IF friendliness <= 40 THEN 900
                               ELSE One
      IN Max(700, Min(1400, Product(<<altitude_step, friendliness_step>>)))

-----------------------------------------------------------------------------
(* The candidate selector: the live schedule source *)

team_mapping ==
       "Los Angeles Angels" :> "LAA" @@ "Houston Astros" :> "HOU" @@
       "Oakland Athletics" :> "OAK" @@ "Seattle Mariners" :> "SEA" @@
       "Texas Rangers" :> "TEX" @@ "Los Angeles Dodgers" :> "LAD" @@
       "San Diego Padres" :> "SD" @@ "San Francisco Giants" :> "SF" @@
       "Colorado Rockies" :> "COL" @@ "Arizona Diamondbacks" :> "ARI" @@
       "Minnesota Twins" :> "MIN" @@ "Kansas City Royals" :> "KC" @@
       "Detroit Tigers" :> "DET" @@ "Chicago White Sox" :> "CWS" @@
       "Cleveland Guardians" :> "CLE" @@ "Milwaukee Brewers" :> "MIL" @@
       "St. Louis Cardinals" :> "STL" @@ "Chicago Cubs" :> "CHC" @@
       "Cincinnati Reds" :> "CIN" @@ "Pittsburgh Pirates" :> "PIT" @@
       "Atlanta Braves" :> "ATL" @@ "Miami Marlins" :> "MIA" @@
       "New York Mets" :> "NYM" @@ "Philadelphia Phillies" :> "PHI" @@
       "Washington Nationals" :> "WSN" @@ "Boston Red Sox" :> "BOS" @@
       "New York Yankees" :> "NYY" @@ "Tampa Bay Rays" :> "TB" @@
       "Toronto Blue Jays" :> "TOR" @@ "Baltimore Orioles" :> "BAL"

\* team_name[:3].upper() for the names team_mapping does not hold
Prefix3Upper(team_name) == IF team_name = "Athletics" THEN "ATH" ELSE "UNK"

get_team_abbreviation(team_name) ==
    IF team_name \in DOMAIN team_mapping THEN team_mapping[team_name]
    ELSE Prefix3Upper(team_name)

\* the statistics used when the statistics source gives nothing or raises
FallbackStats ==
    [recent_era |-> 380, recent_whip |-> 125, k_per_nine |-> 850,
     quality_starts |-> 8, wins |-> 6, losses |-> 4, innings_pitched |-> 7500,
     strikeouts |-> 70, walks |-> 25, hits_allowed |-> 65]

\* the statistics built from a season record, field by field
SeasonStats(season_stats) ==
    [recent_era |-> Get(season_stats, "era", 400),
     recent_whip |-> Get(season_stats, "whip", 130),
     k_per_nine |-> Get(season_stats, "strikeoutsPer9Inn", 800),
     quality_starts |-> Get(season_stats, "qualityStarts", 5),
     wins |-> Get(season_stats, "wins", 5),
     losses |-> Get(season_stats, "losses", 5),
     innings_pitched |-> Get(season_stats, "inningsPitched", 5000),
     strikeouts |-> Get(season_stats, "strikeOuts", 50),
     walks |-> Get(season_stats, "baseOnBalls", 20),
     hits_allowed |-> Get(season_stats, "hits", 60)]

\* f'{team} Stadium'
TeamStadium(team) == team \o " Stadium"

\* get_real_pitcher_info(pitcher_data, team, opponent, target_date, is_home,
\* game_info): pitcher_data.player_stat_data is what the statistics source
\* answers for this pitcher: Raised, None, or [stats |-> season record]
get_real_pitcher_info(pitcher_data, team, opponent, is_home, game_info) ==
    LET pitcher_id == Get(pitcher_data, "id", 0)
        pitcher_name == Get(pitcher_data, "fullName", "Unknown Pitcher")
        player_stats == pitcher_data.player_stat_data
        stats == IF player_stats = Raised THEN FallbackStats
                 ELSE IF player_stats # None /\ "stats" \in DOMAIN player_stats
                      THEN SeasonStats(player_stats.stats)
                      ELSE FallbackStats
        stadium_name == IF "gameData" \in DOMAIN game_info
                           /\ "venue" \in DOMAIN game_info.gameData
                        THEN game_info.gameData.venue
                        ELSE TeamStadium(team)
    IN IF pitcher_id = 0 THEN None
       ELSE [name |-> pitcher_name, team |-> team, opponent |-> opponent,
             is_home |-> is_home, stadium |-> stadium_name, stats |-> stats,
             pitcher_id |-> pitcher_id]

\* one round of the loop over the schedule: the candidates of one game.
\* game.detail is what statsapi.get('game', ...) answered: Raised, or the
\* probable pitchers of the game
PitchersOfGame(game) ==
    IF game.detail = Raised THEN <<>>
    ELSE
      LET home_team_abbr == get_team_abbreviation(game.home_name)
          away_team_abbr == get_team_abbreviation(game.away_name)
          probable == game.detail.probablePitchers
          home == IF "home" \in DOMAIN probable
                  THEN get_real_pitcher_info(probable.home, home_team_abbr,
                                             away_team_abbr, TRUE, game)
                  ELSE None
          away == IF "away" \in DOMAIN probable
                  THEN get_real_pitcher_info(probable.away, away_team_abbr,
                                             home_team_abbr, FALSE, game)
                  ELSE None
      IN (IF home # None THEN <<home>> ELSE <<>>)
           \o (IF away # None THEN <<away>> ELSE <<>>)

RECURSIVE PitchersOfSchedule(_)
PitchersOfSchedule(schedule) ==
    IF schedule = <<>> THEN <<>>
    ELSE PitchersOfGame(Head(schedule)) \o PitchersOfSchedule(Tail(schedule))

-----------------------------------------------------------------------------
(* The candidate selector: the secondary source *)

\* the statistics of the placeholder for the home team
MsfHomeStats ==
    [recent_era |-> 380, recent_whip |-> 125, k_per_nine |-> 850,
     quality_starts |-> 8, wins |-> 6, losses |-> 4, innings_pitched |-> 7500,
     strikeouts |-> 70, walks |-> 25, hits_allowed |-> 65]

\* the statistics of the away placeholder as they would be if it shared the
\* home placeholder's
MsfAwayStatsAsHome == MsfHomeStats

\* the statistics of the placeholder for the away team
MsfAwayStats ==
    [recent_era |-> 390, recent_whip |-> 127, k_per_nine |-> 830,
     quality_starts |-> 7, wins |-> 5, losses |-> 5, innings_pitched |-> 7200,
     strikeouts |-> 68, walks |-> 27, hits_allowed |-> 68]

\* one round of the loop over the games of the secondary source; a game
\* without its schedule fields is skipped
MsfPitchersOfGame(game) ==
    IF "schedule" \notin DOMAIN game THEN <<>>
    ELSE
      LET home_team == game.schedule.homeTeam
          away_team == game.schedule.awayTeam
          venue == game.schedule.venue
      IN << [name |-> home_team \o " Probable Starter", team |-> home_team,
             opponent |-> away_team, is_home |-> TRUE, stadium |-> venue,
             stats |-> MsfHomeStats, pitcher_id |-> "msf_" \o home_team \o "_home"],
            [name |-> away_team \o " Probable Starter", team |-> away_team,
             opponent |-> home_team, is_home |-> FALSE, stadium |-> venue,
             stats |-> MsfAwayStats, pitcher_id |-> "msf_" \o away_team \o "_away"] >>

RECURSIVE MsfPitchersOfGames(_)
MsfPitchersOfGames(games) ==
    IF games = <<>> THEN <<>>
    ELSE MsfPitchersOfGame(Head(games)) \o MsfPitchersOfGames(Tail(games))

\* get_mysportsfeeds_pitchers(target_date): response is what requests.get
\* answered: Raised, or [status_code, games]
get_mysportsfeeds_pitchers(response) ==
    IF response = Raised THEN <<>>
    ELSE IF response.status_code # 200 THEN <<>>
    ELSE IF response.games = <<>> THEN <<>>
    ELSE MsfPitchersOfGames(response.games)

-----------------------------------------------------------------------------
(* The candidate selector: the synthetic generator *)

mlb_teams ==
    << "NYY", "BOS", "TOR", "TB", "BAL", "HOU", "LAA", "OAK", "SEA", "TEX",
       "CLE", "CWS", "DET", "KC", "MIN", "ATL", "MIA", "NYM", "PHI", "WSN",
       "CHC", "CIN", "MIL", "PIT", "STL", "ARI", "COL", "LAD", "SD", "SF" >>

\* generate_pitcher_info(team, opponent, target_date, True): draw is what the
\* generator seeded with hash(team + date) yields, a name and statistics
generate_pitcher_info(team, opponent, is_home, draw) ==
    LET stadium_info == get_stadium_characteristics(team)
    IN [name |-> draw.name, team |-> team, opponent |-> opponent,
        is_home |-> is_home,
        stadium |-> Get(stadium_info, "stadium", TeamStadium(team)),
        stats |-> draw.stats]

\* the loop of get_simulated_pitchers_for_date: i-th round on the teams left
RECURSIVE SimulatedRounds(_, _, _, _)
SimulatedRounds(available_teams, rounds, i, seed) ==
    IF i > rounds \/ Len(available_teams) < 2 THEN <<>>
    ELSE
      LET n == Len(available_teams)
          team1 == available_teams[n]
          team2 == available_teams[n - 1]
          home_team == IF seed.coins[i] THEN team1 ELSE team2
          away_team == IF seed.coins[i] THEN team2 ELSE team1
      IN << generate_pitcher_info(home_team, away_team, TRUE,
                                  seed.draws[home_team]) >>
           \o Call(LAMBDA rest : SimulatedRounds(rest, rounds, i + 1, seed),
                   SubSeq(available_teams, 1, n - 2))

\* a faulty variant of get_simulated_pitchers_for_date: one pairing short
get_simulated_one_short(seed) ==
    SimulatedRounds(seed.shuffled,
                    Min(seed.num_games, Len(seed.shuffled) \div 2) - 1, 1, seed)

\* a faulty variant of get_simulated_pitchers_for_date: no pairing at all
get_simulated_no_pairing(seed) == SimulatedRounds(seed.shuffled, 0, 1, seed)

\* get_simulated_pitchers_for_date(target_date): seed is what the generator
\* seeded with target_date.toordinal() yields: the number of games, the
\* shuffled teams, the home/away coins, and the per-team draws
get_simulated_pitchers_for_date(seed) ==
    SimulatedRounds(seed.shuffled,
                    Min(seed.num_games, Len(seed.shuffled) \div 2), 1, seed)

-----------------------------------------------------------------------------
(* The candidate selector *)

\* a faulty variant of get_probable_pitchers_for_date: the secondary source
\* is also asked when the live source answered without any candidate
get_probable_pitchers_asking_on(env) ==
    LET live == IF env.schedule = Raised
                   \/ \E i \in DOMAIN env.schedule.games :
                         "game_id" \notin DOMAIN env.schedule.games[i]
                THEN <<>>
                ELSE PitchersOfSchedule(env.schedule.games)
    IN IF live # <<>> THEN [pitchers |-> live, calls |-> <<"schedule">>]
       ELSE IF get_mysportsfeeds_pitchers(env.msf) # <<>>
       THEN [pitchers |-> get_mysportsfeeds_pitchers(env.msf),
             calls |-> <<"schedule", "mysportsfeeds">>]
       ELSE [pitchers |-> get_simulated_pitchers_for_date(env.seed),
             calls |-> <<"schedule", "mysportsfeeds", "simulated">>]

\* get_probable_pitchers_for_date(target_date): the candidates and the
\* sources queried, in order.  env.schedule is what statsapi.schedule
\* answered (Raised, or the games; a game without game_id makes the loop
\* raise), env.msf the secondary source, env.seed the synthetic generator.
get_probable_pitchers_for_date(env) ==
    LET schedule == env.schedule
        live_raises ==
            \/ schedule = Raised
            \/ \E i \in DOMAIN schedule.games :
                  "game_id" \notin DOMAIN schedule.games[i]
    IN IF ~live_raises
       THEN [pitchers |-> IF schedule.games = <<>> THEN <<>>
                          ELSE PitchersOfSchedule(schedule.games),
             calls |-> <<"schedule">>]
       ELSE
         LET mysportsfeeds_pitchers == get_mysportsfeeds_pitchers(env.msf)
         IN IF mysportsfeeds_pitchers # <<>>
            THEN [pitchers |-> mysportsfeeds_pitchers,
                  calls |-> <<"schedule", "mysportsfeeds">>]
            ELSE [pitchers |-> get_simulated_pitchers_for_date(env.seed),
                  calls |-> <<"schedule", "mysportsfeeds", "simulated">>]

-----------------------------------------------------------------------------
(* The derive step of the three analyzers *)

\* WeatherAnalyzer.analyze_no_hitter_weather_patterns(df): Raised, None when
\* no row gave a weather record, or the pair (patterns, frame)
analyze_no_hitter_weather_patterns(df, raises) ==
    IF raises THEN Raised
    ELSE IF df = <<>> THEN None
    ELSE [raised |-> FALSE, patterns |-> WeatherPatternSummary]

\* PitcherPerformanceAnalyzer.analyze_no_hitter_pitcher_patterns(df): the
\* thresholds are percentiles of the simulated form of the rows
analyze_no_hitter_pitcher_patterns(df, raises, thresholds) ==
    IF raises THEN Raised
    ELSE IF df = <<>> THEN None
    ELSE [raised |-> FALSE, patterns |-> thresholds]

\* the rows of the stadium analysis, one per event
StadiumAnalysis(df) ==
    [ i \in DOMAIN df |->
        LET stadium_chars == get_stadium_characteristics(df[i].team)
        IN [stadium_type |-> stadium_chars.type,
            surface |-> stadium_chars.surface,
            pitcher_friendliness |-> calculate_pitcher_friendliness(stadium_chars),
            foul_territory_size |-> FoulTerritory(stadium_chars),
            dome_factor |-> IF IsDomeType(stadium_chars.type) THEN 1 ELSE 0,
            retractable_factor |->
                IF stadium_chars.type = "retractable_dome" THEN 1 ELSE 0] ]

\* StadiumEnvironmentAnalyzer.calculate_stadium_patterns(stadium_analysis)
calculate_stadium_patterns(stadium_analysis) ==
    IF stadium_analysis = <<>> THEN None
    ELSE
      LET n == Len(stadium_analysis)
          Count(P(_)) == Cardinality({ i \in 1 .. n : P(stadium_analysis[i]) })
          IsLarge(a) == a.foul_territory_size \in {"large", "massive"}
          IsSmall(a) == a.foul_territory_size \in {"small", "very_small"}
          IsAverage(a) == a.foul_territory_size = "average"
          IsGrass(a) == a.surface = "grass"
          IsTurf(a) == a.surface = "artificial_turf"
          domes == SeqSum([ i \in 1 .. n |->
                      stadium_analysis[i].dome_factor
                        + stadium_analysis[i].retractable_factor ])
          scores == SeqSum([ i \in 1 .. n |->
                       stadium_analysis[i].pitcher_friendliness ])
      IN StadiumPatternSummary((domes * 100) \div n, scores \div n,
                               Count(IsLarge), Count(IsSmall), Count(IsAverage),
                               Count(IsGrass), Count(IsTurf))

\* StadiumEnvironmentAnalyzer.analyze_stadium_no_hitter_patterns(df)
analyze_stadium_no_hitter_patterns(df, raises) ==
    IF raises THEN Raised
    ELSE [raised |-> FALSE,
          patterns |-> calculate_stadium_patterns(StadiumAnalysis(df))]

\* the lazy initialisation as it would be if every call derived anew
LazyPatternsEveryCall(held, derived) ==
    IF derived = Raised \/ derived = None THEN None ELSE derived.patterns

\* the lazy initialisation of one pattern summary (predictor.py 179-201):
\* a summary already held is kept; a derive step that raises, or whose
\* answer does not unpack into a pair, leaves None
LazyPatterns(held, derived) ==
    IF held # None THEN held
    ELSE IF derived = Raised \/ derived = None THEN None
    ELSE derived.patterns

-----------------------------------------------------------------------------
(* The confidence interval *)

\* num_simulations of calculate_confidence_interval
NumSimulations == 3

RECURSIVE Insert(_, _)
Insert(x, s) ==
    IF s = <<>> THEN <<x>>
    ELSE IF x <= Head(s) THEN <<x>> \o s
    ELSE <<Head(s)>> \o Insert(x, Tail(s))

RECURSIVE Sorted(_)
Sorted(s) == IF s = <<>> THEN <<>> ELSE Insert(Head(s), Sorted(Tail(s)))

\* np.percentile(a, q) with linear interpolation; q in tenths of a percent
percentile(a, q) ==
    LET s == Sorted(a)
        pos == (Len(s) - 1) * q
        k == pos \div 1000
        frac == pos % 1000
    IN IF k + 1 >= Len(s) THEN s[Len(s)]
       ELSE s[k + 1] + (frac * (s[k + 2] - s[k + 1])) \div 1000

\* the bounding of a simulated probability as it would be with the cap alone
KeepBelowCap(sim_prob) == Min(sim_prob, 100000)

\* max(min(sim_prob, 0.1), 0.001)
KeepWithinBounds(sim_prob) == Max(Min(sim_prob, 100000), 1000)

\* calculate_confidence_interval(probability): noise holds the draws of
\* np.random.normal(1.0, 0.1) in milli; the bounds are in percent (1e-6)
calculate_confidence_interval(probability, noise) ==
    LET simulations ==
            [ i \in DOMAIN noise |->
                KeepWithinBounds(Mul(probability, noise[i])) ]
    IN [lower |-> percentile(simulations, 25) * 100,
        upper |-> percentile(simulations, 975) * 100]

-----------------------------------------------------------------------------
(* The explanation: the clauses, in order *)

\* monthly, date and recency clauses, shared by both generators
TraditionalClauses(monthly_factor, date_factor, recency_adjustment) ==
    (IF monthly_factor > 1100 THEN <<"month higher">>
     ELSE IF monthly_factor < 900 THEN <<"month lower">> ELSE <<>>)
      \o (IF date_factor > 1100 THEN <<"significant date">> ELSE <<>>)
      \o (IF recency_adjustment > 1100 THEN <<"longer than average">> ELSE <<>>)

\* the clauses of the generic explanation as they would be with 1.1 as the
\* threshold of the strong-form clause
generate_enhanced_explanation_at_1_1(monthly_factor, date_factor, recency_adjustment, weather_factor, pitcher_factor, stadium_factor, current_weather, current_pitcher_stats, stadium_info) ==
    LET explanations ==
          TraditionalClauses(monthly_factor, date_factor, recency_adjustment)
            \o (IF weather_factor > 1100 /\ current_weather # None
                THEN <<"favorable weather">>
                ELSE IF weather_factor < 900 /\ current_weather # None
                     THEN <<"challenging weather">> ELSE <<>>)
            \o (IF pitcher_factor > 1100 /\ current_pitcher_stats # None
                THEN <<"strong pitcher form">>
                ELSE IF pitcher_factor < 900 /\ current_pitcher_stats # None
                     THEN <<"concerning pitcher form">> ELSE <<>>)
            \o (IF stadium_factor > 1100 /\ stadium_info # None
                THEN <<"favorable stadium">>
                ELSE IF stadium_factor < 900 /\ stadium_info # None
                     THEN <<"challenging stadium">> ELSE <<>>)
    IN IF explanations = <<>> THEN <<"historical patterns">> ELSE explanations

generate_enhanced_explanation(monthly_factor, date_factor, recency_adjustment, weather_factor, pitcher_factor, stadium_factor, current_weather, current_pitcher_stats, stadium_info) ==
    LET explanations ==
          TraditionalClauses(monthly_factor, date_factor, recency_adjustment)
            \o (IF weather_factor > 1100 /\ current_weather # None
                THEN <<"favorable weather">>
                ELSE IF weather_factor < 900 /\ current_weather # None
                     THEN <<"challenging weather">> ELSE <<>>)
            \o (IF pitcher_factor > 1200 /\ current_pitcher_stats # None
                THEN <<"strong pitcher form">>
                ELSE IF pitcher_factor < 900 /\ current_pitcher_stats # None
                     THEN <<"concerning pitcher form">> ELSE <<>>)
            \o (IF stadium_factor > 1100 /\ stadium_info # None
                THEN <<"favorable stadium">>
                ELSE IF stadium_factor < 900 /\ stadium_info # None
                     THEN <<"challenging stadium">> ELSE <<>>)
    IN IF explanations = <<>> THEN <<"historical patterns">> ELSE explanations

generate_pitcher_specific_explanation(monthly_factor, date_factor, recency_adjustment, weather_factor, stadium_factor, current_weather, pitcher_info) ==
    LET recent_era == Get(pitcher_info.stats, "recent_era", 400)
        quality_starts == Get(pitcher_info.stats, "quality_starts", 1)
    IN <<"selected">>
         \o (IF recent_era <= 250 THEN <<"excellent recent form">>
             ELSE IF recent_era <= 350 THEN <<"solid recent form">>
             ELSE IF recent_era >= 500 THEN <<"struggling recently">> ELSE <<>>)
         \o (IF quality_starts >= 2 THEN <<"quality starts">> ELSE <<>>)
         \o TraditionalClauses(monthly_factor, date_factor, recency_adjustment)
         \o (IF weather_factor > 1100 /\ current_weather # None
             THEN <<"favorable weather">>
             ELSE IF weather_factor < 900 /\ current_weather # None
                  THEN <<"challenging weather">> ELSE <<>>)
         \o (IF stadium_factor > 1100 THEN <<"pitcher-friendly stadium">>
             ELSE IF stadium_factor < 900 THEN <<"hitter-friendly stadium">>
             ELSE <<>>)

-----------------------------------------------------------------------------
(* The selection *)

\* the cap and the floor of a candidate's probability, in ppm
PitcherCap == 250000
PitcherFloor == 100
\* the cap and the floor of the generic forecast, in ppm
GenericCap == 150000
GenericFloor == 500

\* a faulty variant of ClampPitcher: the floor without the cap
ClampPitcherNoCap(p) == Max(p, PitcherFloor)

\* min(p, 0.25) then max(p, 0.0001)
ClampPitcher(p) == Max(Min(p, PitcherCap), PitcherFloor)

\* min(p, 0.15) then max(p, 0.0005)
ClampGeneric(p) == Max(Min(p, GenericCap), GenericFloor)

\* base_rate * monthly * date * decadal * recency * weather, left to right
SharedProduct(f) ==
    Mul(Mul(Mul(Mul(Mul(f.base_rate, f.monthly_factor), f.date_factor),
                f.decadal_factor), f.recency_adjustment), f.weather_factor)

\* a faulty variant of PitcherProduct: the stadium factor is left out
PitcherProductWithoutStadium(f, pitcher_info) ==
    Mul(SharedProduct(f), calculate_pitcher_specific_factor(pitcher_info))

\* the probability of one candidate before the clamp
PitcherProduct(f, pitcher_info) ==
    Mul(Mul(SharedProduct(f), calculate_pitcher_specific_factor(pitcher_info)),
        calculate_pitcher_stadium_factor(pitcher_info))

\* the start of the loop as it would be with best_probability at the floor
NoBestAtFloor == [probability |-> PitcherFloor, pitcher |-> None]

\* best_probability = 0, best_pitcher = None
NoBest == [probability |-> 0, pitcher |-> None]

\* a faulty variant of IsBetter: a tie replaces the best so far
IsBetterOrEqual(pitcher_probability, best_probability) ==
    pitcher_probability >= best_probability

\* if pitcher_probability > best_probability
IsBetter(pitcher_probability, best_probability) ==
    pitcher_probability > best_probability

\* the loop over the candidates (predictor.py 234-286): the best so far
RECURSIVE EvaluatePitchers(_, _, _)
EvaluatePitchers(probable_pitchers, f, best) ==
    IF probable_pitchers = <<>> THEN best
    ELSE
      LET pitcher_info == Head(probable_pitchers)
          pitcher_probability == ClampPitcher(PitcherProduct(f, pitcher_info))
      IN Call(LAMBDA b : EvaluatePitchers(Tail(probable_pitchers), f, b),
              IF IsBetter(pitcher_probability, best.probability)
              THEN [probability |-> pitcher_probability, pitcher |-> pitcher_info]
              ELSE best)

\* target_date.strftime('%Y-%m-%d')
Pad2(n) == IF n < 10 THEN "0" \o ToString(n) ELSE ToString(n)
strftime(dt) == ToString(dt.y) \o "-" \o Pad2(dt.m) \o "-" \o Pad2(dt.d)

\* best_result of the candidate path
PitcherResult(target_date, f, cond, best, noise) ==
    LET pitcher_info == best.pitcher
        pitcher_specific_factor == calculate_pitcher_specific_factor(pitcher_info)
        stadium_factor_specific == calculate_pitcher_stadium_factor(pitcher_info)
    IN [status |-> "returned",
        date |-> strftime(target_date),
        probability |-> best.probability,
        probability_percent |-> best.probability * 100,
        confidence_interval |->
            calculate_confidence_interval(best.probability, noise),
        selected_pitcher |->
            [name |-> pitcher_info.name, team |-> pitcher_info.team,
             opponent |-> pitcher_info.opponent,
             stadium |-> pitcher_info.stadium],
        factors |->
            [base_rate |-> f.base_rate, monthly_factor |-> f.monthly_factor,
             date_factor |-> f.date_factor,
             decadal_factor |-> f.decadal_factor,
             recency_adjustment |-> f.recency_adjustment,
             weather_factor |-> f.weather_factor,
             pitcher_factor |-> pitcher_specific_factor,
             stadium_factor |-> stadium_factor_specific],
        current_conditions |->
            [weather |-> cond.weather, pitcher_stats |-> pitcher_info.stats,
             stadium_info |-> cond.stadium_info],
        explanation |->
            generate_pitcher_specific_explanation(
                f.monthly_factor, f.date_factor, f.recency_adjustment,
                f.weather_factor, stadium_factor_specific, cond.weather,
                pitcher_info)]

\* best_result of the generic fallback (predictor.py 288-328)
GenericResult(target_date, f, cond, noise) ==
    LET probability ==
            ClampGeneric(Mul(Mul(SharedProduct(f), f.pitcher_factor),
                             f.stadium_factor))
    IN [status |-> "returned",
        date |-> strftime(target_date),
        probability |-> probability,
        probability_percent |-> probability * 100,
        confidence_interval |-> calculate_confidence_interval(probability, noise),
        selected_pitcher |->
            [name |-> "General Day Forecast", team |-> "MLB",
             opponent |-> "Various", stadium |-> "Multiple Venues"],
        factors |->
            [base_rate |-> f.base_rate, monthly_factor |-> f.monthly_factor,
             date_factor |-> f.date_factor,
             decadal_factor |-> f.decadal_factor,
             recency_adjustment |-> f.recency_adjustment,
             weather_factor |-> f.weather_factor,
             pitcher_factor |-> f.pitcher_factor,
             stadium_factor |-> f.stadium_factor],
        current_conditions |->
            [weather |-> cond.weather, pitcher_stats |-> cond.pitcher_stats,
             stadium_info |-> cond.stadium_info],
        explanation |->
            generate_enhanced_explanation(
                f.monthly_factor, f.date_factor, f.recency_adjustment,
                f.weather_factor, f.pitcher_factor, f.stadium_factor,
                cond.weather, cond.pitcher_stats, cond.stadium_info)]

-----------------------------------------------------------------------------
(* NoHitterPredictor.select_best_pitcher_for_date *)

\* the attributes of the predictor
Self ==
    [weather_patterns |-> weather_patterns,
     pitcher_patterns |-> pitcher_patterns,
     stadium_patterns |-> stadium_patterns,
     base_rate |-> base_rate, monthly_factors |-> monthly_factors,
     date_factors |-> date_factors, decadal_weights |-> decadal_weights]

\* the names of the derive steps that run: one per summary not yet held
DeriveCalls(self) ==
    (IF self.weather_patterns = None
     THEN <<"analyze_no_hitter_weather_patterns">> ELSE <<>>)
      \o (IF self.pitcher_patterns = None
          THEN <<"analyze_no_hitter_pitcher_patterns">> ELSE <<>>)
      \o (IF self.stadium_patterns = None
          THEN <<"analyze_stadium_no_hitter_patterns">> ELSE <<>>)

FactorCalls ==
    <<"calculate_base_rate", "calculate_monthly_factors",
      "calculate_date_factors", "calculate_decadal_weights",
      "calculate_recency_adjustment", "calculate_weather_factor",
      "calculate_pitcher_factor", "calculate_stadium_factor">>

\* the pattern summaries after the lazy initialisation and the historical
\* factors (predictor.py 179-208)
HistoricalFactors(self, df, env) ==
    [weather_patterns |->
         LazyPatterns(self.weather_patterns,
             analyze_no_hitter_weather_patterns(
                 df, "weather" \in env.derive_raises)),
     pitcher_patterns |->
         LazyPatterns(self.pitcher_patterns,
             analyze_no_hitter_pitcher_patterns(
                 df, "pitcher" \in env.derive_raises, env.thresholds)),
     stadium_patterns |->
         LazyPatterns(self.stadium_patterns,
             analyze_stadium_no_hitter_patterns(
                 df, "stadium" \in env.derive_raises)),
     base_rate |-> calculate_base_rate(df),
     monthly_factors |-> calculate_monthly_factors(self.monthly_factors, df),
     date_factors |-> calculate_date_factors(self.date_factors, df),
     decadal_weights |-> calculate_decadal_weights(self.decadal_weights, df),
     recency_adjustment |-> calculate_recency_adjustment(df, env.target_date)]

\* the three generic condition factors (predictor.py 211-213)
ConditionFactors(h, env) ==
    [weather |-> calculate_weather_factor(env.current_weather,
                                          h.weather_patterns),
     pitcher |-> calculate_pitcher_factor(env.current_pitcher_stats,
                                          h.pitcher_patterns),
     stadium |-> calculate_stadium_factor(env.stadium_lookup_raises,
                                          h.stadium_patterns)]

\* the factors for the target date (predictor.py 216-224)
TargetFactors(h, c, target_date) ==
    [base_rate |-> h.base_rate,
     monthly_factor |-> Get(h.monthly_factors, target_date.m, One),
     date_factor |->
         Get(h.date_factors, <<target_date.m, target_date.d>>, One),
     decadal_factor |-> Get(h.decadal_weights, Decade(target_date.y), One),
     recency_adjustment |-> h.recency_adjustment,
     weather_factor |-> c.weather.factor,
     pitcher_factor |-> c.pitcher.factor,
     stadium_factor |-> c.stadium.factor]

CurrentConditions(c) ==
    [weather |-> c.weather.info, pitcher_stats |-> c.pitcher.info,
     stadium_info |-> c.stadium.info]

NoneDegraded == [derive |-> {}, steps |-> {}]

\* the except branches taken during the call: the derive steps that raised
\* (predictor.py 183-201) and the generic factor steps that raised
\* (predictor.py 387-389, 407-409, 441-443)
Degraded(self, h, env) ==
    [derive |->
         { a \in env.derive_raises :
             \/ a = "weather" /\ self.weather_patterns = None
             \/ a = "pitcher" /\ self.pitcher_patterns = None
             \/ a = "stadium" /\ self.stadium_patterns = None },
     steps |->
         (IF env.current_weather = Raised THEN {"weather"} ELSE {})
           \cup (IF env.current_pitcher_stats = Raised THEN {"pitcher"} ELSE {})
           \cup (IF \/ env.stadium_lookup_raises
                    \/ /\ h.stadium_patterns # None
                       /\ stadium_calculate_stadium_factor(
                              sample_team, None, h.stadium_patterns).raised
                 THEN {"stadium"} ELSE {})]

\* the end of the call: the attributes, the result, the candidates, the calls
Outcome(self, h, c, selector, best, env) ==
    [self |-> [weather_patterns |-> h.weather_patterns,
               pitcher_patterns |-> h.pitcher_patterns,
               stadium_patterns |-> h.stadium_patterns,
               base_rate |-> h.base_rate,
               monthly_factors |-> h.monthly_factors,
               date_factors |-> h.date_factors,
               decadal_weights |-> h.decadal_weights],
     result |->
         IF best.pitcher = None
         THEN GenericResult(env.target_date,
                            TargetFactors(h, c, env.target_date),
                            CurrentConditions(c), env.noise)
         ELSE PitcherResult(env.target_date,
                            TargetFactors(h, c, env.target_date),
                            CurrentConditions(c), best, env.noise),
     probable_pitchers |-> selector.pitchers,
     calls |-> <<"load_data">> \o DeriveCalls(self) \o FactorCalls
                 \o selector.calls,
     degraded |-> Degraded(self, h, env)]

\* the call left by an exception of one of the three factor steps, which
\* are called outside any try (predictor.py 211-213)
Escaped(self, h) ==
    [self |-> [weather_patterns |-> h.weather_patterns,
               pitcher_patterns |-> h.pitcher_patterns,
               stadium_patterns |-> h.stadium_patterns,
               base_rate |-> h.base_rate,
               monthly_factors |-> h.monthly_factors,
               date_factors |-> h.date_factors,
               decadal_weights |-> h.decadal_weights],
     result |-> [status |-> "raised"],
     probable_pitchers |-> <<>>,
     calls |-> <<"load_data">> \o DeriveCalls(self) \o FactorCalls,
     degraded |-> NoneDegraded]

\* select_best_pitcher_for_date(target_date): env holds what the outside
\* world answers during the call.  The value is the outcome of the call:
\* the attributes afterwards, the result or the failure, the candidates the
\* selector gave, and the calls made, in order.
select_best_pitcher_for_date(self, file, env) ==
    IF load_data(file).raised
    THEN [self |-> self, result |-> [status |-> "raised"],
          probable_pitchers |-> <<>>, calls |-> <<"load_data">>,
          degraded |-> NoneDegraded]
    ELSE
      Call(LAMBDA h :
        Call(LAMBDA c :
          IF c.weather.raised \/ c.pitcher.raised \/ c.stadium.raised
          THEN Escaped(self, h)
          ELSE
          Call(LAMBDA selector :
            Call(LAMBDA best : Outcome(self, h, c, selector, best, env),
                 EvaluatePitchers(selector.pitchers,
                                  TargetFactors(h, c, env.target_date), NoBest)),
            get_probable_pitchers_for_date(env)),
          ConditionFactors(h, env)),
        HistoricalFactors(self, load_data(file).df, env))

-----------------------------------------------------------------------------
(* What the outside world answers during a prediction *)

MaxPredictions == 2

TargetDates == { Date(2025, 4, 27), Date(2025, 7, 4) }

\* which derive steps raise, and which generic factor steps raise
FailureCases ==
    { <<{}, {}>>, <<{"weather"}, {}>>, <<{"pitcher"}, {}>>, <<{"stadium"}, {}>>,
      <<{}, {"weather"}>>, <<{}, {"pitcher"}>>, <<{}, {"stadium"}>>,
      <<{"weather", "pitcher", "stadium"}, {"weather", "pitcher", "stadium"}>> }

\* the sample get_current_weather('NYY') gives
FairWeather == Weather(72, 45, 5, 0)

\* the sample simulate_current_pitcher_form() gives
GoodForm == FormStats(240, 95, 1050, 2)

FormThresholds == PitcherPatternSummary(300, 110, 900, 2)

\* the draws of np.random.normal(1.0, 0.1), in milli
Noise == [ i \in 1 .. NumSimulations |-> 900 + 100 * ((i - 1) % 3) ]

\* what the statistics source answers for one pitcher
SeasonRecord(era, whip, k9, qs) ==
    [stats |-> [era |-> era, whip |-> whip, strikeoutsPer9Inn |-> k9,
                qualityStarts |-> qs]]

PitcherData(id, fullName, player_stat_data) ==
    [id |-> id, fullName |-> fullName, player_stat_data |-> player_stat_data]

\* one entry of the live schedule
Game(game_id, home_name, away_name, detail) ==
    [game_id |-> game_id, home_name |-> home_name, away_name |-> away_name,
     detail |-> detail]

Schedule(games) == [raised |-> FALSE, games |-> games]

Detail(probable) == [probablePitchers |-> probable]

Ace == PitcherData(605400, "Aaron Nola", SeasonRecord(200, 95, 1050, 3))
Struggler == PitcherData(592332, "Kyle Gibson", SeasonRecord(550, 155, 640, 0))

\* a schedule of one game with both probable pitchers announced
TwoPitcherSchedule ==
    Schedule(<< Game(1, "Philadelphia Phillies", "Colorado Rockies",
                     Detail([home |-> Ace, away |-> Struggler])) >>)

\* a schedule of one game whose away probable pitcher is the stronger one
AwayAceSchedule ==
    Schedule(<< Game(1, "Colorado Rockies", "Philadelphia Phillies",
                     Detail([home |-> Struggler, away |-> Ace])) >>)

\* a schedule of one game with the home probable pitcher alone announced
HomePitcherSchedule ==
    Schedule(<< Game(1, "Philadelphia Phillies", "Colorado Rockies",
                     Detail([home |-> Ace])) >>)

\* one game of the secondary source
MsfGame(homeTeam, awayTeam, venue) ==
    [schedule |-> [homeTeam |-> homeTeam, awayTeam |-> awayTeam, venue |-> venue]]

MsfResponse(status_code, games) ==
    [raised |-> FALSE, status_code |-> status_code, games |-> games]

MsfOneGame == MsfResponse(200, << MsfGame("SEA", "COL", "T-Mobile Park") >>)

\* the statistics generate_pitcher_info draws, by profile
DrawnStats(k) ==
    [recent_era |-> 180 + 170 * k, recent_whip |-> 85 + 45 * k,
     k_per_nine |-> 1350 - 375 * k, quality_starts |-> 3 - k,
     last_5_starts_era |-> 200 + 175 * k, career_era |-> 300 + 90 * k,
     season_record |-> <<4 + 5 * k, 2 + 5 * k>>]

DrawnNames == <<"Jake Johnson", "Mike Smith", "Carlos Rodriguez">>

TeamIndex(team) == CHOOSE i \in DOMAIN mlb_teams : mlb_teams[i] = team

\* what the generator seeded with (team, date) draws for each team
Draws(shift) ==
    [ team \in { mlb_teams[i] : i \in DOMAIN mlb_teams } |->
        [name |-> DrawnNames[((TeamIndex(team) + shift) % 3) + 1],
         stats |-> DrawnStats((TeamIndex(team) + shift) % 3)] ]

Reverse(s) == [ i \in DOMAIN s |-> s[Len(s) + 1 - i] ]

\* what the generator seeded with the date draws
Seed(num_games, shuffled, coin, shift) ==
    [num_games |-> num_games, shuffled |-> shuffled,
     coins |-> [ i \in 1 .. 12 |-> IF coin THEN TRUE ELSE i % 2 = 0 ],
     draws |-> Draws(shift)]

\* the answers of the three candidate sources
SourceCases ==
    { [schedule |-> TwoPitcherSchedule, msf |-> Raised],
      [schedule |-> AwayAceSchedule, msf |-> Raised],
      [schedule |-> HomePitcherSchedule, msf |-> Raised],
      [schedule |-> Schedule(<<>>), msf |-> Raised],
      [schedule |-> Raised, msf |-> MsfOneGame],
      [schedule |-> Raised, msf |-> Raised] }

Env(target_date, failure, source) ==
    [target_date |-> target_date,
     derive_raises |-> failure[1],
     thresholds |-> FormThresholds,
     current_weather |-> IF "weather" \in failure[2] THEN Raised ELSE FairWeather,
     current_pitcher_stats |->
         IF "pitcher" \in failure[2] THEN Raised ELSE GoodForm,
     stadium_lookup_raises |-> "stadium" \in failure[2],
     schedule |-> source.schedule, msf |-> source.msf,
     seed |-> Seed(8, mlb_teams, TRUE, 0),
     noise |-> Noise]

\* every date without failures, and every failure on the first date
Envs ==
    { Env(d, <<{}, {}>>, s) : d \in TargetDates, s \in SourceCases }
      \cup { Env(Date(2025, 4, 27), c, s) : c \in FailureCases, s \in SourceCases }

-----------------------------------------------------------------------------
(* The engine *)

InitEngine ==
    /\ weather_patterns = None
    /\ pitcher_patterns = None
    /\ stadium_patterns = None
    /\ base_rate = None
    /\ monthly_factors = EmptyMap
    /\ date_factors = EmptyMap
    /\ decadal_weights = EmptyMap
    /\ npredictions = 0
    /\ result = [status |-> "none"]
    /\ calls = <<>>
    /\ candidates = <<>>
    /\ degraded = NoneDegraded

Init ==
    /\ data_file \in {Missing} \cup { File(t) : t \in Tables }
    /\ InitEngine
    /\ predictions_file = NoPredictions
    /\ cache_refresh = NoSignal
    /\ scheduler = NotStarted
    /\ cache_file = NoCache
    /\ runs = <<>>
    /\ input = None
    /\ output = None

\* predict_probability(target_date) on the engine
Predict(env) ==
    /\ npredictions < MaxPredictions
    /\ \E r \in { select_best_pitcher_for_date(Self, data_file, env) } :
          /\ weather_patterns' = r.self.weather_patterns
          /\ pitcher_patterns' = r.self.pitcher_patterns
          /\ stadium_patterns' = r.self.stadium_patterns
          /\ base_rate' = r.self.base_rate
          /\ monthly_factors' = r.self.monthly_factors
          /\ date_factors' = r.self.date_factors
          /\ decadal_weights' = r.self.decadal_weights
          /\ result' = r.result
          /\ calls' = r.calls
          /\ candidates' = r.probable_pitchers
          /\ degraded' = r.degraded
    /\ npredictions' = npredictions + 1
    /\ UNCHANGED <<cache_refresh, scheduler,
                   data_file, predictions_file, cache_file, runs, input, output>>

\* the data file becomes unreadable: pd.read_csv raises from then on
DataLost ==
    /\ data_file # Missing
    /\ data_file' = Missing
    /\ UNCHANGED <<cache_refresh, scheduler,
                   engine_vars, npredictions, result, calls, candidates,
                   degraded, predictions_file, cache_file, runs, input,
                   output>>

\* NoHitterDataCollector.update_data(): the file is rewritten with the
\* collector's table, sorted by date
UpdateData ==
    /\ data_file # update_data
    /\ data_file' = update_data
    /\ UNCHANGED <<cache_refresh, scheduler,
                   engine_vars, npredictions, result, calls, candidates,
                   degraded, predictions_file, cache_file, runs, input,
                   output>>

Next ==
    \/ \E env \in Envs : Predict(env)
    \/ DataLost
    \/ UpdateData

Spec == Init /\ [][Next]_vars

-----------------------------------------------------------------------------
(* Properties of the prediction *)

\* the subject of the generic fallback
GenericSubject ==
    [name |-> "General Day Forecast", team |-> "MLB", opponent |-> "Various",
     stadium |-> "Multiple Venues"]

HasReturned == result.status = "returned"

\* the last prediction returned the generic forecast
GenericUsed == HasReturned /\ result.selected_pitcher = GenericSubject

\* the last prediction returned one of the candidates of its selector
CandidateSelected ==
    /\ HasReturned
    /\ \E i \in DOMAIN candidates :
          result.selected_pitcher =
              [name |-> candidates[i].name, team |-> candidates[i].team,
               opponent |-> candidates[i].opponent,
               stadium |-> candidates[i].stadium]

\* C1: every returned probability lies within the bounds of its path:
\* [0.0001, 0.25] when a candidate was selected, [0.0005, 0.15] when the
\* generic forecast was used
C1_ProbabilityWithinBounds ==
    HasReturned =>
      /\ CandidateSelected \/ GenericUsed
      /\ CandidateSelected =>
            PitcherFloor <= result.probability /\ result.probability <= PitcherCap
      /\ GenericUsed =>
            GenericFloor <= result.probability /\ result.probability <= GenericCap

\* a candidate was selected whose product of factors is above the cap
C1_Witness ==
    /\ CandidateSelected
    /\ result.probability = PitcherCap
    /\ Mul(Mul(SharedProduct(result.factors), result.factors.pitcher_factor),
           result.factors.stadium_factor) > PitcherCap

\* the product the generic fallback clamps, from the reported factors
GenericProduct ==
    Mul(Mul(SharedProduct(result.factors), result.factors.pitcher_factor),
        result.factors.stadium_factor)

\* C7: the generic fallback is taken exactly when the selector gave no
\* candidates: with an empty list the result is the generic computation
\* (the product of the reported factors clamped to [0.0005, 0.15]) with the
\* placeholder as subject; with a non-empty list a candidate is the subject
C7_GenericExactlyWhenNoCandidates ==
    HasReturned =>
      /\ candidates = <<>> =>
            /\ GenericUsed
            /\ result.probability = ClampGeneric(GenericProduct)
      /\ candidates # <<>> => CandidateSelected /\ ~GenericUsed

\* the selector gave nothing and the generic product lay inside the clamp
C7_Witness ==
    /\ GenericUsed
    /\ candidates = <<>>
    /\ GenericFloor < result.probability
    /\ result.probability < GenericCap

Analyzers == {"weather", "pitcher", "stadium"}

\* the analyzers of which a step raised during the last prediction
FailedAnalyzers == degraded.derive \cup degraded.steps

\* the factor the result reports for an analyzer
ReportedFactor(a) ==
    IF a = "weather" THEN result.factors.weather_factor
    ELSE IF a = "pitcher" THEN result.factors.pitcher_factor
    ELSE result.factors.stadium_factor

\* the current_conditions field the result reports for an analyzer
ReportedCondition(a) ==
    IF a = "weather" THEN result.current_conditions.weather
    ELSE IF a = "pitcher" THEN result.current_conditions.pitcher_stats
    ELSE result.current_conditions.stadium_info

\* the pattern summary the engine holds for an analyzer
HeldPatterns(a) ==
    IF a = "weather" THEN weather_patterns
    ELSE IF a = "pitcher" THEN pitcher_patterns
    ELSE stadium_patterns

\* the candidate the result names, with the factors and the statistics the
\* result reports being that candidate's own
SelectedCandidateReported ==
    \E i \in DOMAIN candidates :
        /\ result.selected_pitcher =
              [name |-> candidates[i].name, team |-> candidates[i].team,
               opponent |-> candidates[i].opponent,
               stadium |-> candidates[i].stadium]
        /\ result.factors.pitcher_factor =
              calculate_pitcher_specific_factor(candidates[i])
        /\ result.factors.stadium_factor =
              calculate_pitcher_stadium_factor(candidates[i])
        /\ result.current_conditions.pitcher_stats = candidates[i].stats

\* C8 as stated: when a step of an analyzer raised, the prediction returns
\* and the factor reported for that analyzer is 1.0, on both paths
C8_FailedFactorNeutral ==
    /\ degraded # NoneDegraded => HasReturned
    /\ HasReturned => \A a \in FailedAnalyzers : ReportedFactor(a) = One

\* C8: when a step of an analyzer raised, the prediction returns; the
\* weather factor reported is then 1.0 on both paths, the pitcher and the
\* stadium factor are 1.0 on the generic path, and on the candidate path
\* they are the selected candidate's own factors
C8_FailedFactorNeutralWhereGeneric ==
    /\ degraded # NoneDegraded => HasReturned
    /\ HasReturned =>
          /\ "weather" \in FailedAnalyzers =>
                result.factors.weather_factor = One
          /\ GenericUsed => \A a \in FailedAnalyzers : ReportedFactor(a) = One
          /\ CandidateSelected => SelectedCandidateReported

\* every analyzer failed, a candidate was selected, and the pitcher and
\* stadium factors reported are not neutral
C8_Witness ==
    /\ CandidateSelected
    /\ FailedAnalyzers = Analyzers
    /\ result.factors.weather_factor = One
    /\ result.factors.pitcher_factor # One
    /\ result.factors.stadium_factor # One

C10_LoadFailureIsFatal ==
    [][ (data_file = Missing /\ npredictions' # npredictions) =>
            /\ result'.status = "raised"
            /\ calls' = <<"load_data">>
            /\ candidates' = <<>>
            /\ UNCHANGED engine_vars ]_npredictions

\* a prediction failed on the load while the engine held pattern summaries
\* and factors of an earlier prediction
C10_Witness ==
    /\ result.status = "raised"
    /\ calls = <<"load_data">>
    /\ weather_patterns # None
    /\ DOMAIN monthly_factors # {}

\* a result with every field: the date, the probability and its percent
\* within [0.01, 25], the interval, the subject, the eight factors, the
\* three current conditions and a non-empty explanation
Complete(r) ==
    /\ r.status = "returned"
    /\ DOMAIN r = {"status", "date", "probability", "probability_percent",
                   "confidence_interval", "selected_pitcher", "factors",
                   "current_conditions", "explanation"}
    /\ r.probability_percent = r.probability * 100
    /\ 10000 <= r.probability_percent /\ r.probability_percent <= 25000000
    /\ DOMAIN r.confidence_interval = {"lower", "upper"}
    /\ DOMAIN r.selected_pitcher = {"name", "team", "opponent", "stadium"}
    /\ DOMAIN r.factors =
          {"base_rate", "monthly_factor", "date_factor", "decadal_factor",
           "recency_adjustment", "weather_factor", "pitcher_factor",
           "stadium_factor"}
    /\ DOMAIN r.current_conditions = {"weather", "pitcher_stats", "stadium_info"}
    /\ r.explanation # <<>>

\* C11: a prediction call returns a complete result unless the data file
\* cannot be loaded, and raises exactly then: no failing analyzer step,
\* failing candidate source, or empty or one-element candidate list makes it
\* raise or leave a field out
C11_CompleteUnlessLoadFails ==
    [][ npredictions' # npredictions =>
            IF data_file = Missing
            THEN result'.status = "raised"
            ELSE Complete(result') ]_npredictions

\* the derive step of an analyzer
DeriveStep(a) ==
    IF a = "weather" THEN "analyze_no_hitter_weather_patterns"
    ELSE IF a = "pitcher" THEN "analyze_no_hitter_pitcher_patterns"
    ELSE "analyze_stadium_no_hitter_patterns"

Made(cs) == { cs[i] : i \in DOMAIN cs }

\* C12 as stated: a derive step that ran in one prediction, whatever it
\* gave, does not run in the next prediction
C12_DerivedAtMostOnce ==
    [][ npredictions' # npredictions =>
            \A a \in Analyzers :
                DeriveStep(a) \in Made(calls) => DeriveStep(a) \notin Made(calls')
      ]_npredictions

\* C12: a pattern summary that is held is kept as it is by every later
\* prediction and its derive step does not run again, whatever the data
\* file holds by then; while no summary is held (nothing derived yet, or the
\* derivation failed or gave none), every prediction that loads the data
\* runs the derive step
C12_HeldSummaryNeverRederived ==
    [][ npredictions' # npredictions =>
            \A a \in Analyzers :
                IF HeldPatterns(a) # None
                THEN /\ DeriveStep(a) \notin Made(calls')
                     /\ HeldPatterns(a)' = HeldPatterns(a)
                ELSE data_file # Missing => DeriveStep(a) \in Made(calls')
      ]_npredictions

\* the last prediction ran on the rewritten data file, derived nothing, and
\* the engine holds a stadium summary that is not the one of this file
C12_Witness ==
    /\ HasReturned
    /\ data_file = update_data
    /\ \A a \in Analyzers : DeriveStep(a) \notin Made(calls)
    /\ stadium_patterns # None
    /\ stadium_patterns #
          analyze_stadium_no_hitter_patterns(data_file.rows, FALSE).patterns

\* every analyzer step failed, the selector gave one candidate, and the
\* result is complete
C11_Witness ==
    /\ FailedAnalyzers = Analyzers
    /\ degraded.steps = Analyzers
    /\ Len(candidates) = 1
    /\ Complete(result)

-----------------------------------------------------------------------------
(* The candidate selector on its own *)

NoPitchers == [x \in {} |-> None]

Rookie == PitcherData(700001, "Paul Skenes", Raised)
Unlisted == PitcherData(700002, "Bryce Miller", None)
NoStats == PitcherData(700003, "Tanner Bibee", [stats |-> EmptyMap])
NoId == [fullName |-> "To Be Announced", player_stat_data |-> None]

OneGame(detail) ==
    Schedule(<< Game(1, "Philadelphia Phillies", "Athletics", detail) >>)

\* what statsapi.schedule and statsapi.get can answer for one date
LiveAnswers ==
    { Raised,
      Schedule(<<>>),
      Schedule(<< [home_name |-> "Boston Red Sox",
                   away_name |-> "New York Yankees"] >>),
      OneGame(Raised),
      OneGame(Detail(NoPitchers)),
      OneGame(Detail([home |-> NoId])),
      OneGame(Detail([home |-> Rookie])),
      OneGame(Detail([away |-> Unlisted, home |-> NoId])),
      OneGame(Detail([home |-> NoStats, away |-> Struggler])),
      TwoPitcherSchedule }

\* what the secondary source can answer
MsfAnswers ==
    { Raised,
      MsfResponse(503, <<>>),
      MsfResponse(200, <<>>),
      MsfResponse(200, << [id |-> 7] >>),
      MsfOneGame,
      MsfResponse(200, << [id |-> 7], MsfGame("BOS", "NYY", "Fenway Park"),
                          MsfGame("SD", "LAD", "Petco Park") >>) }

Seeds ==
    { Seed(n, teams, coin, 0) :
        n \in 8 .. 12, teams \in {mlb_teams, Reverse(mlb_teams)},
        coin \in BOOLEAN }

SelectorInputs ==
    { [schedule |-> a, msf |-> b, seed |-> c] :
        a \in LiveAnswers, b \in MsfAnswers, c \in Seeds }

InitSelector ==
    /\ data_file = Missing
    /\ InitEngine
    /\ predictions_file = NoPredictions
    /\ cache_refresh = NoSignal
    /\ scheduler = NotStarted
    /\ cache_file = NoCache
    /\ runs = <<>>
    /\ input \in SelectorInputs
    /\ output = None

\* one call of get_probable_pitchers_for_date
Select ==
    /\ output = None
    /\ output' = get_probable_pitchers_for_date(input)
    /\ UNCHANGED <<cache_refresh, scheduler,
                   data_file, engine_vars, npredictions, result, calls,
                   candidates, degraded, predictions_file, cache_file, runs,
                   input>>

NextSelector == Select

SpecSelector == InitSelector /\ [][NextSelector]_vars

Selected == output # None

\* the live source raised: the schedule call, or the loop on a malformed entry
LiveRaised ==
    \/ input.schedule = Raised
    \/ \E i \in DOMAIN input.schedule.games :
          "game_id" \notin DOMAIN input.schedule.games[i]

\* some game of the live schedule names a probable pitcher with an id
LiveNamesPitcher ==
    /\ ~LiveRaised
    /\ \E i \in DOMAIN input.schedule.games :
          LET game == input.schedule.games[i]
          IN /\ game.detail # Raised
             /\ \E side \in DOMAIN game.detail.probablePitchers :
                   Get(game.detail.probablePitchers[side], "id", 0) # 0

\* C2 as stated: the selector returns a non-empty candidate list for every
\* combination of answers of the live and the secondary source
C2_AlwaysCandidates == Selected => output.pitchers # <<>>

\* C2: the selector returns candidates exactly when the live source raised
\* (then from the secondary source, or 8 to 12 synthetic ones) or named a
\* probable pitcher; a live answer without games or without probable
\* pitchers gives the empty list
C2_CandidatesUnlessLiveIsSilent ==
    Selected =>
      /\ output.pitchers # <<>> <=> (LiveRaised \/ LiveNamesPitcher)
      /\ LiveRaised /\ get_mysportsfeeds_pitchers(input.msf) = <<>> =>
            Len(output.pitchers) \in 8 .. 12

\* the live source answered with games that name no pitcher with an id, and
\* the selector gave no candidate
C2_Witness ==
    /\ Selected
    /\ ~LiveRaised /\ input.schedule.games # <<>>
    /\ output.pitchers = <<>>

SourceField ==
    [recent_era |-> "era", recent_whip |-> "whip",
     k_per_nine |-> "strikeoutsPer9Inn", quality_starts |-> "qualityStarts",
     wins |-> "wins", losses |-> "losses", innings_pitched |-> "inningsPitched",
     strikeouts |-> "strikeOuts", walks |-> "baseOnBalls",
     hits_allowed |-> "hits"]

\* the statistics source supplied this statistic for this pitcher
Supplied(pitcher_data, field) ==
    /\ pitcher_data.player_stat_data # Raised
    /\ pitcher_data.player_stat_data # None
    /\ "stats" \in DOMAIN pitcher_data.player_stat_data
    /\ SourceField[field] \in DOMAIN pitcher_data.player_stat_data.stats

\* the probable pitchers with an id that the live schedule names
LivePitchers ==
    IF LiveRaised THEN {}
    ELSE UNION { IF input.schedule.games[i].detail = Raised THEN {}
                 ELSE { input.schedule.games[i].detail.probablePitchers[side] :
                          side \in DOMAIN
                            input.schedule.games[i].detail.probablePitchers } :
                 i \in DOMAIN input.schedule.games }

\* C20: for a candidate of the live source, every statistic the source did
\* not supply has the documented default (ERA 3.8, WHIP 1.25, K/9 8.5,
\* quality starts 8, wins 6, losses 4, innings 75.0, strikeouts 70, walks
\* 25, hits allowed 65), whether the source gave nothing, raised, or gave a
\* record with only some of the fields
C20_MissingStatisticsTakeDefault ==
    Selected =>
      \A pitcher_data \in LivePitchers :
        Get(pitcher_data, "id", 0) # 0 =>
          \E i \in DOMAIN output.pitchers :
            /\ output.pitchers[i].pitcher_id = pitcher_data.id
            /\ \A field \in DOMAIN FallbackStats :
                  ~Supplied(pitcher_data, field) =>
                     output.pitchers[i].stats[field] = FallbackStats[field]

\* the candidates came from the secondary source
FromSecondary == Selected /\ output.calls = <<"schedule", "mysportsfeeds">>

\* C21 as stated: every placeholder candidate of the secondary source, home
\* or away, carries the default statistics of the live source (ERA 3.8,
\* WHIP 1.25, K/9 8.5, quality starts 8, wins 6, losses 4, innings 75.0,
\* strikeouts 70, walks 25, hits allowed 65)
C21_PlaceholdersCarryDefaults ==
    FromSecondary =>
      \A i \in DOMAIN output.pitchers :
         output.pitchers[i].stats = FallbackStats

\* C21: the home placeholder of each matchup carries the default statistics
\* of the live source; the away placeholder carries ERA 3.9, WHIP 1.27,
\* K/9 8.3, quality starts 7, wins 5, losses 5, innings 72.0, strikeouts 68,
\* walks 27, hits allowed 68
C21_HomeDefaultsAwayOwn ==
    FromSecondary =>
      \A i \in DOMAIN output.pitchers :
         IF output.pitchers[i].is_home
         THEN output.pitchers[i].stats = FallbackStats
         ELSE output.pitchers[i].stats =
                [recent_era |-> 390, recent_whip |-> 127, k_per_nine |-> 830,
                 quality_starts |-> 7, wins |-> 5, losses |-> 5,
                 innings_pitched |-> 7200, strikeouts |-> 68, walks |-> 27,
                 hits_allowed |-> 68]

\* the secondary source gave two matchups: four placeholders, home and away
C21_Witness ==
    /\ FromSecondary
    /\ Len(output.pitchers) = 4
    /\ output.pitchers[1].is_home /\ ~output.pitchers[2].is_home
    /\ output.pitchers[2].stats.recent_era = 390

-----------------------------------------------------------------------------
(* The selection loop on its own *)

MaxCandidates == 3

Candidate(name, team, stats) ==
    [name |-> name, team |-> team, opponent |-> "TEX", is_home |-> TRUE,
     stadium |-> TeamStadium(team), stats |-> stats]

\* two pairs that differ in the recent ERA alone (2.0 and 5.5), two
\* candidates of equal statistics, and one at altitude
CandidatePool ==
    { Candidate("Logan Gilbert", "SEA", FormStats(200, 130, 800, 1)),
      Candidate("Logan Gilbert", "SEA", FormStats(550, 130, 800, 1)),
      Candidate("George Kirby", "SEA", FormStats(200, 95, 1050, 3)),
      Candidate("George Kirby", "SEA", FormStats(550, 95, 1050, 3)),
      Candidate("Luis Castillo", "SEA", FormStats(400, 130, 800, 1)),
      Candidate("Bryan Woo", "SEA", FormStats(400, 130, 800, 1)),
      Candidate("Kyle Freeland", "COL", FormStats(340, 118, 860, 2)) }

RECURSIVE ListsUpTo(_, _)
ListsUpTo(S, n) ==
    IF n = 0 THEN { <<>> }
    ELSE LET shorter == ListsUpTo(S, n - 1)
         IN shorter \cup { <<x>> \o l : x \in S, l \in { t \in shorter : Len(t) = n - 1 } }

SharedFactors(base, monthly, date, recency, weather) ==
    [base_rate |-> base, monthly_factor |-> monthly, date_factor |-> date,
     decadal_factor |-> One, recency_adjustment |-> recency,
     weather_factor |-> weather]

\* shared factors whose product is zero, small, moderate, and large enough
\* for some or for all candidates to reach the cap
SharedCases ==
    { SharedFactors(74, 0, 1000, 1000, 1000),
      SharedFactors(37, 1000, 1000, 1000, 1000),
      SharedFactors(74, 3500, 1000, 1350, 1897),
      SharedFactors(37, 7000, 365000, 1000, 1897),
      SharedFactors(74, 7000, 182500, 2000, 1897) }

SelectionInputs ==
    { [f |-> f, pitchers |-> l] :
        f \in SharedCases, l \in ListsUpTo(CandidatePool, MaxCandidates) }

InitSelection ==
    /\ data_file = Missing
    /\ InitEngine
    /\ predictions_file = NoPredictions
    /\ cache_refresh = NoSignal
    /\ scheduler = NotStarted
    /\ cache_file = NoCache
    /\ runs = <<>>
    /\ input \in SelectionInputs
    /\ output = None

\* one run of the loop over the candidates
Evaluate ==
    /\ output = None
    /\ output' = EvaluatePitchers(input.pitchers, input.f, NoBest)
    /\ UNCHANGED <<cache_refresh, scheduler,
                   data_file, engine_vars, npredictions, result, calls,
                   candidates, degraded, predictions_file, cache_file, runs,
                   input>>

NextSelection == Evaluate

SpecSelection == InitSelection /\ [][NextSelection]_vars

Evaluated == output # None

\* the clamped probability of the i-th candidate
ClampedOf(i) == ClampPitcher(PitcherProduct(input.f, input.pitchers[i]))

\* C4: the selected pitcher is the first candidate of the list whose clamped
\* probability is the maximum over the list
C4_FirstOfTheBest ==
    Evaluated /\ input.pitchers # <<>> =>
      \E i \in DOMAIN input.pitchers :
         /\ output.pitcher = input.pitchers[i]
         /\ output.probability = ClampedOf(i)
         /\ \A j \in DOMAIN input.pitchers : ClampedOf(j) <= ClampedOf(i)
         /\ \A j \in 1 .. (i - 1) : ClampedOf(j) < ClampedOf(i)

\* three candidates, the last two tied on the maximum below the cap, and
\* the second one selected
C4_Witness ==
    /\ Evaluated
    /\ Len(input.pitchers) = 3
    /\ ClampedOf(1) < ClampedOf(2)
    /\ ClampedOf(2) = ClampedOf(3)
    /\ input.pitchers[2] # input.pitchers[3]
    /\ ClampedOf(2) < PitcherCap
    /\ output.pitcher = input.pitchers[2]

\* the list holds two candidates alike in everything but the recent ERA,
\* 2.0 for the one at position hot and 5.5 for the other
HotColdPair(hot) ==
    /\ Len(input.pitchers) = 2
    /\ hot \in {1, 2}
    /\ input.pitchers[hot].stats.recent_era = 200
    /\ input.pitchers[3 - hot].stats.recent_era = 550
    /\ input.pitchers[3 - hot] =
          [input.pitchers[hot] EXCEPT !.stats.recent_era = 550]

\* C5 as stated: of two candidates alike but for the recent ERA (2.0 and
\* 5.5) the ERA-2.0 one is selected, in either order, for all shared factors
C5_HotAlwaysSelected ==
    \A hot \in {1, 2} :
       Evaluated /\ HotColdPair(hot) => output.pitcher = input.pitchers[hot]

\* C5: of two candidates alike but for the recent ERA (2.0 and 5.5), the
\* ERA-2.0 one is selected whenever the clamped probabilities differ; they
\* are equal only with both at the floor or both at the cap, and then the
\* one listed first is selected
C5_HotSelectedUnlessTied ==
    \A hot \in {1, 2} :
       Evaluated /\ HotColdPair(hot) =>
         /\ ClampedOf(hot) >= ClampedOf(3 - hot)
         /\ ClampedOf(hot) > ClampedOf(3 - hot) =>
               output.pitcher = input.pitchers[hot]
         /\ ClampedOf(hot) = ClampedOf(3 - hot) =>
               /\ output.pitcher = input.pitchers[1]
               /\ ClampedOf(hot) \in {PitcherFloor, PitcherCap}

\* the ERA-5.5 candidate is listed first, both reach the cap, and the
\* ERA-5.5 candidate is selected
C5_Witness ==
    /\ Evaluated
    /\ HotColdPair(2)
    /\ ClampedOf(1) = PitcherCap
    /\ output.pitcher = input.pitchers[1]

-----------------------------------------------------------------------------
(* The candidate-specific pitcher factor on its own *)

\* the statistics other than the recent ERA: WHIP and K/9 in units of 1e-2
\* around every threshold of the factor, and the quality starts
OtherStats ==
    { [recent_whip |-> w, k_per_nine |-> k, quality_starts |-> q] :
        w \in {85, 100, 101, 120, 121, 130, 149, 150, 175},
        k \in {600, 650, 651, 849, 850, 999, 1000, 1350},
        q \in 0 .. 3 }

WithEra(stats, era) ==
    [stats |-> FormStats(era, stats.recent_whip, stats.k_per_nine,
                         stats.quality_starts)]

InitFactor ==
    /\ data_file = Missing
    /\ InitEngine
    /\ predictions_file = NoPredictions
    /\ cache_refresh = NoSignal
    /\ scheduler = NotStarted
    /\ cache_file = NoCache
    /\ runs = <<>>
    /\ input \in OtherStats
    /\ output = None

\* the factor of the ERA-2.0 and of the ERA-5.5 candidate with these
\* other statistics
Compare ==
    /\ output = None
    /\ output' =
          [hot |-> calculate_pitcher_specific_factor(WithEra(input, 200)),
           cold |-> calculate_pitcher_specific_factor(WithEra(input, 550))]
    /\ UNCHANGED <<cache_refresh, scheduler,
                   data_file, engine_vars, npredictions, result, calls,
                   candidates, degraded, predictions_file, cache_file, runs,
                   input>>

NextFactor == Compare

SpecFactor == InitFactor /\ [][NextFactor]_vars

\* C6: with equal WHIP, K/9 and quality starts, the factor for a recent ERA
\* of 2.0 is strictly larger than the factor for a recent ERA of 5.5
C6_HotFactorLarger == output # None => output.hot > output.cold

\* the hot-streak bonus applies to the ERA-2.0 candidate, whose factor is
\* cut to the cap of 3.0, and the ERA-5.5 factor stays below it
C6_Witness ==
    /\ output # None
    /\ input.recent_whip <= 100 /\ input.quality_starts >= 2
    /\ output.hot = 3000
    /\ output.cold > 1500

-----------------------------------------------------------------------------
(* The historical factors as functions of the table and the target date *)

\* rows of the collector's table, one per month of the season, in date
\* order; the row of 2021-06-02 twice, as the collector lists it in both of
\* its tables; and a postseason event in November
HistoryRows ==
    << Event(Date(2001, 4, 27), "Hideo Nomo", "BOS"),
       Event(Date(2010, 10, 6), "Roy Halladay", "PHI"),
       Event(Date(2013, 7, 13), "Homer Bailey", "CIN"),
       Event(Date(2019, 5, 7), "Mike Fiers", "OAK"),
       Event(Date(2019, 9, 28), "Mike Fiers", "OAK"),
       Event(Date(2020, 8, 19), "Alec Mills", "CHC"),
       Event(Date(2021, 6, 2), "Spencer Turnbull", "DET"),
       Event(Date(2021, 6, 2), "Spencer Turnbull", "DET"),
       Event(Date(2022, 11, 2), "Cristian Javier", "HOU") >>

HistoryDates ==
    { Date(2001, 4, 27), Date(2021, 6, 10), Date(2025, 9, 28), Date(2040, 7, 4) }

HistoryInputs ==
    { [df |-> t, target_date |-> d] : t \in SubSeqs(HistoryRows), d \in HistoryDates }

\* the historical factors of a prediction for target_date on the table df
\* (predictor.py 204-220)
HistoryOf(df, target_date) ==
    [monthly_factors |-> calculate_monthly_factors(EmptyMap, df),
     monthly_factor |->
         Get(calculate_monthly_factors(EmptyMap, df), target_date.m, One),
     date_factors |-> calculate_date_factors(EmptyMap, df),
     date_factor |->
         Get(calculate_date_factors(EmptyMap, df),
             <<target_date.m, target_date.d>>, One),
     recency_adjustment |-> calculate_recency_adjustment(df, target_date)]

InitHistory ==
    /\ data_file = Missing
    /\ InitEngine
    /\ predictions_file = NoPredictions
    /\ cache_refresh = NoSignal
    /\ scheduler = NotStarted
    /\ cache_file = NoCache
    /\ runs = <<>>
    /\ input \in HistoryInputs
    /\ output = None

\* the historical factor steps of one prediction
Assess ==
    /\ output = None
    /\ output' = HistoryOf(input.df, input.target_date)
    /\ UNCHANGED <<cache_refresh, scheduler,
                   data_file, engine_vars, npredictions, result, calls,
                   candidates, degraded, predictions_file, cache_file, runs,
                   input>>

NextHistory == Assess

SpecHistory == InitHistory /\ [][NextHistory]_vars

Assessed == output # None

\* the rows dated strictly before the target date
RowsBefore == { i \in DOMAIN input.df : DateLess(input.df[i].date, input.target_date) }

\* days from the latest event before the target date to the target date
Elapsed ==
    toordinal(input.target_date)
      - toordinal(input.df[CHOOSE i \in RowsBefore :
                     \A j \in RowsBefore : j <= i].date)

\* the sum of the gaps between consecutive rows: the mean gap times the
\* number of gaps
GapTotal ==
    toordinal(input.df[Len(input.df)].date) - toordinal(input.df[1].date)

\* C13: the recency adjustment lies in [1.0, 2.0]; it is exactly 1.0 when
\* no event lies before the target date, when the table holds one event,
\* and when the days elapsed since the latest event before the target date
\* do not exceed the mean gap between consecutive rows
C13_RecencyWithinRange ==
    Assessed =>
      /\ One <= output.recency_adjustment
      /\ output.recency_adjustment <= 2000
      /\ RowsBefore = {} => output.recency_adjustment = One
      /\ Len(input.df) = 1 => output.recency_adjustment = One
      /\ (RowsBefore # {} /\ Len(input.df) >= 2
            /\ Elapsed * (Len(input.df) - 1) <= GapTotal) =>
               output.recency_adjustment = One

\* the wait since the latest event is more than eleven times the mean gap,
\* and the cap of 2.0 applies
C13_Witness ==
    /\ Assessed
    /\ Len(input.df) >= 2
    /\ GapTotal > 0
    /\ RowsBefore # {}
    /\ Elapsed * (Len(input.df) - 1) > 11 * GapTotal
    /\ output.recency_adjustment = 2000

\* the rows of the table on the month and day of the target date
RowsOnTargetDay ==
    { i \in DOMAIN input.df :
        /\ input.df[i].date.m = input.target_date.m
        /\ input.df[i].date.d = input.target_date.d }

TargetIsTracked ==
    <<input.target_date.m, input.target_date.d>> \in high_freq_dates

\* C14: the date factor applied is never below 1.0: on a tracked date it
\* is max(1.0, count on that date / (total count / 365)), and 1.0 for an
\* empty table; on every other date it is exactly 1.0
C14_DateFactorAtLeastOne ==
    Assessed =>
      /\ output.date_factor >= One
      /\ \A md \in DOMAIN output.date_factors : output.date_factors[md] >= One
      /\ ~TargetIsTracked => output.date_factor = One
      /\ (TargetIsTracked /\ input.df = <<>>) => output.date_factor = One
      /\ (TargetIsTracked /\ input.df # <<>>) =>
            output.date_factor =
                Max(One, (Cardinality(RowsOnTargetDay) * 365 * 1000)
                            \div Len(input.df))

\* the target date is tracked, the table holds events but none on that
\* day, and the factor is 1.0
C14_Witness ==
    /\ Assessed
    /\ TargetIsTracked
    /\ input.df # <<>>
    /\ RowsOnTargetDay = {}
    /\ output.date_factor = One

\* the number of rows of the table in month m
RowsInMonth(m) == Cardinality({ i \in DOMAIN input.df : input.df[i].date.m = m })

\* the seven months of the season hold the same number of rows
UniformSeason == \A m \in SeasonMonths : RowsInMonth(m) = RowsInMonth(4)

\* C15: every monthly factor of the season is non-negative, and when the
\* seven months of the season hold the same number of events every monthly
\* factor is 1.0
C15_UniformMonthsAreNeutral ==
    Assessed =>
      /\ \A m \in SeasonMonths : output.monthly_factors[m] >= 0
      /\ UniformSeason =>
            \A m \in SeasonMonths : output.monthly_factors[m] = One

-----------------------------------------------------------------------------
(* The factor functions of the three analyzers *)

\* a sample without one of its metrics
Without(sample, key) == [ k \in (DOMAIN sample) \ {key} |-> sample[k] ]

\* weather samples: every metric from far below to far above the ranges the
\* factor tests, and the fair sample with one metric missing
WeatherSamples ==
    { Weather(t, h, w, p) :
        t \in {-40, 45, 55, 72, 85, 95, 130}, h \in {20, 45, 70, 100},
        w \in {0, 5, 15, 60}, p \in {0, 1} }
      \cup { Without(FairWeather, k) : k \in WeatherMetrics }

\* pitcher samples: the same, and a sample that holds no metric at all
PitcherSamples ==
    { FormStats(era, whip, k9, qs) :
        era \in {0, 250, 300, 451, 9900}, whip \in {0, 100, 110, 151, 900},
        k9 \in {0, 900, 2700}, qs \in {0, 2} }
      \cup { Without(GoodForm, k) : k \in DOMAIN GoodForm }
      \cup { [pitcher_name |-> "Today's Starter"] }

\* stadium pattern summaries: those of the tables, and one of a history
\* played mostly under domes and on turf
StadiumSummaries ==
    { calculate_stadium_patterns(StadiumAnalysis(t)) :
        t \in SubSeqs(AllEvents) \ {<<>>} }
      \cup { StadiumPatternSummary(40, 55, 3, 1, 1, 1, 4) }

\* stadium samples: every team and a code no table knows, with the weather
\* absent, fair or wet
StadiumSamples ==
    { [team |-> t, weather |-> w] :
        t \in { mlb_teams[i] : i \in DOMAIN mlb_teams } \cup {"XXX"},
        w \in {None, FairWeather, Weather(72, 45, 5, 1)} }

AnalyzerInputs ==
    { [kind |-> "weather", sample |-> x, patterns |-> WeatherPatternSummary] :
        x \in WeatherSamples }
      \cup { [kind |-> "pitcher", sample |-> x, patterns |-> FormThresholds] :
                x \in PitcherSamples }
      \cup { [kind |-> "stadium", sample |-> x, patterns |-> ps] :
                x \in StadiumSamples, ps \in StadiumSummaries }

\* the outcome of the factor function of the analyzer of that kind
FactorOf(in) ==
    IF in.kind = "weather"
    THEN weather_calculate_weather_factor(in.sample, in.patterns)
    ELSE IF in.kind = "pitcher"
    THEN Factor(calculate_pitcher_form_factor(in.sample, in.patterns))
    ELSE IF stadium_calculate_stadium_factor(in.sample.team, in.sample.weather,
                                             in.patterns).raised
    THEN Raised
    ELSE Factor(stadium_calculate_stadium_factor(
                    in.sample.team, in.sample.weather, in.patterns).factor)

InitAnalyzers ==
    /\ data_file = Missing
    /\ InitEngine
    /\ predictions_file = NoPredictions
    /\ cache_refresh = NoSignal
    /\ scheduler = NotStarted
    /\ cache_file = NoCache
    /\ runs = <<>>
    /\ input \in AnalyzerInputs
    /\ output = None

\* one call of an analyzer's factor function
ComputeFactor ==
    /\ output = None
    /\ output' = FactorOf(input)
    /\ UNCHANGED <<cache_refresh, scheduler,
                   data_file, engine_vars, npredictions, result, calls,
                   candidates, degraded, predictions_file, cache_file, runs,
                   input>>

NextAnalyzers == ComputeFactor

SpecAnalyzers == InitAnalyzers /\ [][NextAnalyzers]_vars

Factored == output # None

\* C16: every factor function returns a value inside its range for every
\* sample: the weather factor in [0.5, 2.0], the pitcher-form factor in
\* [0.6, 2.5], the stadium factor in [0.5, 2.0]
C16_FactorsWithinRange ==
    Factored =>
      /\ ~output.raised
      /\ input.kind = "weather" => 500 <= output.factor /\ output.factor <= 2000
      /\ input.kind = "pitcher" => 600 <= output.factor /\ output.factor <= 2500
      /\ input.kind = "stadium" => 500 <= output.factor /\ output.factor <= 2000

\* a weather sample whose temperature, humidity and wind trigger neither
\* the boost of the ideal range nor the penalty of the extreme
Neutral(sample) ==
    /\ WeatherMetrics \subseteq DOMAIN sample
    /\ ~(65 <= sample.temperature /\ sample.temperature <= 80)
    /\ 50 <= sample.temperature /\ sample.temperature <= 90
    /\ ~(30 <= sample.humidity /\ sample.humidity <= 60)
    /\ sample.humidity <= 80
    /\ ~(3 <= sample.wind_speed /\ sample.wind_speed <= 10)
    /\ sample.wind_speed <= 20

\* C17: for a weather sample that is neutral in temperature, humidity and
\* wind the factor is below 1.0 with precipitation and above 1.0 without
C17_PrecipitationDecides ==
    (Factored /\ input.kind = "weather" /\ Neutral(input.sample)) =>
        /\ ~output.raised
        /\ IF input.sample.precipitation = 0
           THEN output.factor > One
           ELSE output.factor < One

\* a neutral sample with precipitation, and the factor is 0.6
C17_Witness ==
    /\ Factored
    /\ input.kind = "weather"
    /\ Neutral(input.sample)
    /\ input.sample.precipitation = 1
    /\ output.factor = 600

-----------------------------------------------------------------------------
(* The confidence interval as a function of the point probability *)

\* point probabilities in 1e-6: below 0.001, between the bounds, above 0.1
PointProbabilities ==
    {0, 100, 999, 1000, 1242, 5000, 50000, 100000, 100001, 150000, 1000000}

\* draws of np.random.normal(1.0, 0.1) in milli
NoiseDraws == {0, 700, 900, 1000, 1100, 1300}

IntervalInputs ==
    { [probability |-> p, noise |-> n] :
        p \in PointProbabilities, n \in [1 .. NumSimulations -> NoiseDraws] }

InitInterval ==
    /\ data_file = Missing
    /\ InitEngine
    /\ predictions_file = NoPredictions
    /\ cache_refresh = NoSignal
    /\ scheduler = NotStarted
    /\ cache_file = NoCache
    /\ runs = <<>>
    /\ input \in IntervalInputs
    /\ output = None

\* one call of calculate_confidence_interval
Simulate ==
    /\ output = None
    /\ output' = calculate_confidence_interval(input.probability, input.noise)
    /\ UNCHANGED <<cache_refresh, scheduler,
                   data_file, engine_vars, npredictions, result, calls,
                   candidates, degraded, predictions_file, cache_file, runs,
                   input>>

NextInterval == Simulate

SpecInterval == InitInterval /\ [][NextInterval]_vars

Simulated == output # None

\* C18: the lower bound of the confidence interval is never above the upper
\* bound and both lie between 0.1 and 10 percent, whatever the point
\* probability, also one below 0.001 or above 0.1
C18_IntervalOrderedAndBounded ==
    Simulated =>
      /\ output.lower <= output.upper
      /\ 100000 <= output.lower
      /\ output.upper <= 10000000

\* a point probability above 0.1 whose interval reaches 10 percent at the
\* upper end and stays below it at the lower end
C18_Witness ==
    /\ Simulated
    /\ input.probability > 100000
    /\ output.upper = 10000000
    /\ output.lower < output.upper

-----------------------------------------------------------------------------
(* The persisted predictions of the scheduler *)

\* the number of dates save_prediction keeps
Retention == 30

\* the dates of the predictions that are saved: one before, one inside and
\* three after the days the file holds at the start
SavedDates ==
    { Date(2025, 4, 1), Date(2025, 9, 10), Date(2025, 9, 28),
      Date(2025, 10, 1), Date(2026, 3, 27) }

\* 29 days in a row, over the end of a month
SeasonDays ==
    { Date(2025, 8, 30), Date(2025, 8, 31) }
      \cup { Date(2025, 9, d) : d \in 1 .. 27 }

\* datetime.now() at a save
Clock == {1, 2}

\* the date each key of the file was formatted from
KeyDates ==
    [ key \in { strftime(dt) : dt \in SavedDates \cup SeasonDays } |->
        CHOOSE dt \in SavedDates \cup SeasonDays : strftime(dt) = key ]

KeyDate(key) == KeyDates[key]

\* key a < key b as Python compares the two texts: both are
\* 'YYYY-MM-DD' with four, two and two digits, so the first field that
\* differs decides
KeyBefore(a, b) ==
    LET x == KeyDate(a)
        y == KeyDate(b)
    IN \/ x.y < y.y
       \/ x.y = y.y /\ x.m < y.m
       \/ x.y = y.y /\ x.m = y.m /\ x.d < y.d

\* sorted_dates[:-30] as it would be with sorted_dates[30:]
AllButEarliest(keys) ==
    { k \in keys : Cardinality({ j \in keys : KeyBefore(j, k) }) >= Retention }

\* sorted_dates[:-30]: the keys with 30 or more keys after them
AllButLatest(keys) ==
    { k \in keys : Cardinality({ j \in keys : KeyBefore(k, j) }) >= Retention }

\* a prediction as predict_probability returns it, with its own timestamp
Prediction(dt) ==
    [date |-> strftime(dt), probability |-> 1242, timestamp |-> 0]

\* load_predictions(): the mapping of the file, {} without a readable file
load_predictions(file) == IF file.ok THEN file.predictions ELSE EmptyMap

\* save_prediction(prediction) at the time now: the file afterwards
save_prediction(file, prediction, now) ==
    LET predictions == load_predictions(file)
        stamped == [prediction EXCEPT !.timestamp = now]
        added == [ k \in DOMAIN predictions \cup {stamped.date} |->
                     IF k = stamped.date THEN stamped ELSE predictions[k] ]
        sorted_dates == DOMAIN added
        kept == IF Cardinality(sorted_dates) > Retention
                THEN sorted_dates \ AllButLatest(sorted_dates)
                ELSE sorted_dates
    IN Stored([ k \in kept |-> added[k] ])

\* get_latest_prediction(): the entry of max(predictions.keys()), or None
get_latest_prediction(file) ==
    LET predictions == load_predictions(file)
    IN IF DOMAIN predictions = {} THEN None
       ELSE predictions[CHOOSE k \in DOMAIN predictions :
                          \A j \in DOMAIN predictions : ~KeyBefore(k, j)]

\* the file after 29 daily predictions
SeasonFile ==
    Stored([ k \in { strftime(dt) : dt \in SeasonDays } |->
               [date |-> k, probability |-> 1242, timestamp |-> 0] ])

InitStore ==
    /\ data_file = Missing
    /\ InitEngine
    /\ predictions_file \in {NoPredictions, SeasonFile}
    /\ cache_refresh = NoSignal
    /\ scheduler = NotStarted
    /\ cache_file = NoCache
    /\ runs = <<>>
    /\ input = None
    /\ output = None

SavePrediction ==
    \E dt \in SavedDates, now \in Clock :
      /\ input' = [prediction |-> Prediction(dt), now |-> now]
      /\ predictions_file' = save_prediction(predictions_file, Prediction(dt), now)
      /\ UNCHANGED <<cache_refresh, scheduler,
                     data_file, engine_vars, npredictions, result, calls,
                     candidates, degraded, cache_file, runs, output>>

GetLatestPrediction ==
    /\ output' = get_latest_prediction(predictions_file)
    /\ UNCHANGED <<cache_refresh, scheduler,
                   data_file, engine_vars, npredictions, result, calls,
                   candidates, degraded, predictions_file, cache_file, runs,
                   input>>

NextStore == SavePrediction \/ GetLatestPrediction

SpecStore == InitStore /\ [][NextStore]_vars

\* the keys of the file
StoredKeys(file) == DOMAIN load_predictions(file)

\* the state after a call of save_prediction: the file holds at most 30
\* entries, each under its own date and with a timestamp, the saved
\* prediction among them with the time of the save unless 30 later dates
\* are held, every other entry as it was, and every entry that was dropped
\* is older than every entry that was kept
SavedCorrectly(before, after, saved) ==
    LET keys == StoredKeys(after)
        all == StoredKeys(before) \cup {saved.prediction.date}
    IN /\ after.ok
       /\ Cardinality(keys) <= Retention
       /\ keys \subseteq all
       /\ Cardinality(keys) = Min(Retention, Cardinality(all))
       /\ \A k \in keys : \A j \in all \ keys : KeyBefore(j, k)
       /\ \A k \in keys :
            /\ after.predictions[k].date = k
            /\ "timestamp" \in DOMAIN after.predictions[k]
            /\ IF k = saved.prediction.date
               THEN after.predictions[k] =
                      [saved.prediction EXCEPT !.timestamp = saved.now]
               ELSE after.predictions[k] = before.predictions[k]

\* the entry get_latest_prediction returns is the one of the latest date
LatestReturned(file, entry) ==
    IF StoredKeys(file) = {} THEN entry = None
    ELSE /\ entry = file.predictions[entry.date]
         /\ \A k \in StoredKeys(file) : ~KeyBefore(entry.date, k)

\* C19: every call of save_prediction leaves at most 30 entries, one per
\* date and each with its timestamp, the entry of the saved date replaced,
\* the entries kept being those of the latest dates; and
\* get_latest_prediction returns the entry of the latest date
C19_StoreKeepsLatestThirty ==
    [][ /\ predictions_file' # predictions_file =>
             SavedCorrectly(predictions_file, predictions_file', input')
        /\ output' # output => LatestReturned(predictions_file, output')
      ]_<<predictions_file, output>>

\* the file held 30 dates, a prediction for a 31st and later date was
\* saved, and the earliest of the dates is gone
C19_Witness ==
    /\ predictions_file.ok
    /\ Cardinality(StoredKeys(predictions_file)) = Retention
    /\ input # None
    /\ input.prediction.date = "2026-03-27"
    /\ "2026-03-27" \in StoredKeys(predictions_file)
    /\ "2025-08-30" \notin StoredKeys(predictions_file)
    /\ "2025-09-28" \in StoredKeys(predictions_file)
    /\ output # None
    /\ output.date = "2026-03-27"

-----------------------------------------------------------------------------
(* The cache files of the analyzers *)

\* WeatherAnalyzer.team_locations: the city of each team
team_locations ==
    [ ARI |-> "Phoenix", ATL |-> "Atlanta", BAL |-> "Baltimore",
      BOS |-> "Boston", CHC |-> "Chicago", CWS |-> "Chicago",
      CIN |-> "Cincinnati", CLE |-> "Cleveland", COL |-> "Denver",
      DET |-> "Detroit", HOU |-> "Houston", KC |-> "Kansas City",
      LAA |-> "Anaheim", LAD |-> "Los Angeles", MIA |-> "Miami",
      MIL |-> "Milwaukee", MIN |-> "Minneapolis", NYM |-> "New York",
      NYY |-> "New York", OAK |-> "Oakland", PHI |-> "Philadelphia",
      PIT |-> "Pittsburgh", SD |-> "San Diego", SF |-> "San Francisco",
      SEA |-> "Seattle", STL |-> "St. Louis", TB |-> "St. Petersburg",
      TEX |-> "Arlington", TOR |-> "Toronto", WSN |-> "Washington",
      MON |-> "Montreal", FLA |-> "Miami", CAL |-> "Anaheim",
      BRO |-> "Brooklyn", NYG |-> "New York", WAS |-> "Washington" ]

\* climate_profiles.get(location['city'], default_profile): base_temp,
\* humidity, rainfall_chance in percent
ClimateProfile(city) ==
    CASE city = "Phoenix" -> [base_temp |-> 75, humidity |-> 35, rainfall_chance |-> 10]
      [] city = "Miami" -> [base_temp |-> 80, humidity |-> 75, rainfall_chance |-> 40]
      [] city = "Seattle" -> [base_temp |-> 60, humidity |-> 65, rainfall_chance |-> 60]
      [] city = "Denver" -> [base_temp |-> 65, humidity |-> 40, rainfall_chance |-> 20]
      [] city = "Boston" -> [base_temp |-> 65, humidity |-> 60, rainfall_chance |-> 30]
      [] city = "San Francisco" -> [base_temp |-> 62, humidity |-> 70, rainfall_chance |-> 20]
      [] OTHER -> [base_temp |-> 70, humidity |-> 55, rainfall_chance |-> 30]

\* seasonal_temp_adj.get(month, 0)
SeasonalTempAdj(month) ==
    CASE month \in {4, 10} -> -5
      [] month \in {6, 9} -> 5
      [] month \in {7, 8} -> 10
      [] OTHER -> 0

\* row['date'] of the table: a pandas Timestamp, not a text
Timestamp(dt) == [timestamp |-> dt]

\* str(row['date'])
TimestampText(dt) == strftime(dt) \o " 00:00:00"

\* the salts Python can give the hash of a text in one process; two calls
\* in one process share the salt, two processes need not
HashSeeds == {0, 1}

\* the texts that are hashed, as numbers
TextCodes ==
    ("BOS" :> 3) @@ ("OAK" :> 5) @@ ("SLB" :> 8) @@ ("Hideo Nomo" :> 11)
      @@ ("Mike Fiers" :> 13) @@ ("Bobo Holloman" :> 17)

\* hash(text) of a text made of a date and a name, in a process with this
\* salt
StrHash(dt, name, salt) ==
    (toordinal(dt) * 31 + TextCodes[name] + salt * 7919) % 65536

\* the i-th draw of the generator seeded with seed, out of n values
RandomDraw(seed, i, n) == ((seed + 1) * (2 * i + 1) * 7 + i * i) % n

\* WeatherAnalyzer.get_historical_weather_simulation(team, date) in a
\* process with this salt
get_historical_weather_simulation(team, dt, salt) ==
    IF team \notin DOMAIN team_locations THEN None
    ELSE
      LET profile == ClimateProfile(team_locations[team])
          temp_adj == SeasonalTempAdj(dt.m)
          seed == StrHash(dt, team, salt)
      IN [temperature |-> profile.base_temp + temp_adj
                            + RandomDraw(seed, 1, 21) - 10,
          humidity |-> Max(20, Min(95, profile.humidity
                                         + RandomDraw(seed, 2, 31) - 15)),
          wind_speed |-> 2 + RandomDraw(seed, 3, 14),
          precipitation |-> IF RandomDraw(seed, 4, 100) < profile.rainfall_chance
                            THEN 1 ELSE 0,
          pressure |-> 1013 + RandomDraw(seed, 5, 41) - 20,
          conditions |-> IF RandomDraw(seed, 6, 100) >= profile.rainfall_chance
                         THEN "Clear" ELSE "Rain"]

\* PitcherPerformanceAnalyzer.simulate_pitcher_performance(pitcher_name,
\* no_hitter_date, team), reduced to the figures of the last three starts
\* that the summary reads; no_hitter_date is the Timestamp of the row
simulate_pitcher_performance(pitcher_name, dt, team, salt) ==
    LET seed == StrHash(dt, pitcher_name, salt)
    IN [pitcher |-> pitcher_name, team |-> team,
        no_hitter_date |-> Timestamp(dt),
        recent_3_starts |->
            [era |-> 50 + RandomDraw(seed, 1, 400),
             whip |-> 60 + RandomDraw(seed, 2, 100),
             k_per_nine |-> 500 + RandomDraw(seed, 3, 900),
             quality_starts |-> RandomDraw(seed, 4, 4)]]

\* the analysis record analyze_stadium_no_hitter_patterns builds for a row;
\* date is the Timestamp of the row
StadiumRecord(row) ==
    [date |-> Timestamp(row.date)] @@ StadiumAnalysis(<<row>>)[1]

\* the patterns analyze_no_hitter_weather_patterns computes from the
\* weather records; means in 1/1000; the standard deviations are left out
WeatherPatterns(weather_data) ==
    LET n == Len(weather_data)
        Column(c) == [ i \in 1 .. n |-> weather_data[i][c] ]
        Mean(c) == (SeqSum(Column(c)) * 1000) \div n
        Lowest(c) == CHOOSE v \in { weather_data[i][c] : i \in 1 .. n } :
                        \A i \in 1 .. n : v <= weather_data[i][c]
        Highest(c) == CHOOSE v \in { weather_data[i][c] : i \in 1 .. n } :
                         \A i \in 1 .. n : v >= weather_data[i][c]
    IN [avg_temperature |-> Mean("temperature"),
        avg_humidity |-> Mean("humidity"),
        avg_wind_speed |-> Mean("wind_speed"),
        clear_weather_pct |->
            (Cardinality({ i \in 1 .. n : weather_data[i].precipitation = 0 })
               * 100000) \div n,
        temperature_range |-> [min |-> Lowest("temperature"),
                               max |-> Highest("temperature")],
        humidity_range |-> [min |-> Lowest("humidity"),
                            max |-> Highest("humidity")],
        ideal_conditions |-> ideal_conditions]

\* calculate_pitcher_patterns(pitcher_data): the form thresholds
PitcherPatterns(pitcher_data) ==
    LET Column(c) == [ i \in DOMAIN pitcher_data |->
                         pitcher_data[i].recent_3_starts[c] ]
    IN PitcherPatternSummary(percentile(Column("era"), 750),
                             percentile(Column("whip"), 250),
                             percentile(Column("k_per_nine"), 600),
                             percentile(Column("quality_starts"), 700))

\* the key of a row in the cache of the analyzer of this kind
cache_key(kind, row) ==
    IF kind = "weather" THEN row.team \o "_" \o TimestampText(row.date)
    ELSE IF kind = "pitcher"
    THEN row.pitcher \o "_" \o TimestampText(row.date) \o "_" \o row.team
    ELSE "stadium_analysis_" \o row.team \o "_" \o TimestampText(row.date)

\* the sample the analyzer of this kind computes for a row
Computed(kind, row, salt) ==
    IF kind = "weather"
    THEN get_historical_weather_simulation(row.team, row.date, salt)
    ELSE IF kind = "pitcher"
    THEN simulate_pitcher_performance(row.pitcher, row.date, row.team, salt)
    ELSE StadiumRecord(row)

\* the load of the cache as it would be if the file were never read
load_cache_never(file) == EmptyMap

\* load_weather_cache / load_pitcher_cache / load_stadium_cache: the mapping
\* of the file, {} without a readable file
load_cache(file) == IF file.ok THEN file.entries ELSE EmptyMap

\* the loop over the rows, from the cache that was loaded: a key of the
\* cache gives its sample as it is, a missing key has its sample computed
\* and, unless it is None, added
ProcessRows(kind, loaded, df, salt) ==
    LET Sample(row) ==
            IF cache_key(kind, row) \in DOMAIN loaded
            THEN loaded[cache_key(kind, row)]
            ELSE Computed(kind, row, salt)
        added == { i \in DOMAIN df :
                     /\ cache_key(kind, df[i]) \notin DOMAIN loaded
                     /\ Sample(df[i]) # None }
        kept == { i \in DOMAIN df : Sample(df[i]) # None }
        Nth(k) == CHOOSE i \in kept :
                     Cardinality({ j \in kept : j < i }) = k - 1
    IN [cache |-> [ key \in DOMAIN loaded
                              \cup { cache_key(kind, df[i]) : i \in added } |->
                      IF key \in DOMAIN loaded THEN loaded[key]
                      ELSE Sample(df[CHOOSE i \in added :
                                        cache_key(kind, df[i]) = key]) ],
        data |-> [ k \in 1 .. Cardinality(kept) |-> Sample(df[Nth(k)]) ]]

\* json.dump accepts numbers and texts; a Timestamp makes it raise
JsonSerializable(sample) ==
    \A field \in DOMAIN sample \cap {"date", "no_hitter_date"} :
        "timestamp" \notin DOMAIN sample[field]

\* save_weather_cache / save_pitcher_cache / save_stadium_cache: open(..,
\* 'w') empties the file and json.dump writes the entries one after the
\* other; when it raises the file is left with a part of the text, which no
\* later load can read
save_cache(cache) ==
    IF \A key \in DOMAIN cache : JsonSerializable(cache[key])
    THEN [raised |-> FALSE, file |-> Cached(cache)]
    ELSE [raised |-> TRUE, file |-> NoCache]

\* what the call returns after the cache was saved
Summary(kind, data) ==
    IF kind = "stadium"
    THEN [raised |-> FALSE, patterns |-> calculate_stadium_patterns(data)]
    ELSE IF data = <<>> THEN None
    ELSE [raised |-> FALSE,
          patterns |-> IF kind = "weather" THEN WeatherPatterns(data)
                       ELSE PitcherPatterns(data)]

\* the rows of the tables the calls work on; no location is known for the
\* team of the last one
CacheRows ==
    << Event(Date(2001, 4, 27), "Hideo Nomo", "BOS"),
       Event(Date(2019, 9, 28), "Mike Fiers", "OAK"),
       Event(Date(1953, 5, 6), "Bobo Holloman", "SLB") >>

CacheTables == SubSeqs(CacheRows)

AnalyzerKinds == {"weather", "pitcher", "stadium"}

\* a call of derive-patterns that has not started
Run(df, salt) ==
    [pc |-> "start", df |-> df, salt |-> salt, loaded |-> EmptyMap,
     cache |-> EmptyMap, data |-> <<>>, after |-> {}, outcome |-> None]

InitCache ==
    /\ data_file = Missing
    /\ InitEngine
    /\ predictions_file = NoPredictions
    /\ cache_refresh = NoSignal
    /\ scheduler = NotStarted
    /\ cache_file = NoCache
    /\ input \in AnalyzerKinds
    /\ runs \in { <<Run(a, x), Run(b, y)>> :
                    a \in CacheTables, b \in CacheTables,
                    x \in HashSeeds, y \in HashSeeds }
    /\ output = None

\* the first part of a call: the cache is loaded and the rows are processed
LoadAndProcess(r) ==
    /\ runs[r].pc = "start"
    /\ LET loaded == load_cache(cache_file)
           processed == ProcessRows(input, loaded, runs[r].df, runs[r].salt)
       IN runs' = [runs EXCEPT ![r] =
                     [@ EXCEPT !.pc = "processed", !.loaded = loaded,
                               !.cache = processed.cache,
                               !.data = processed.data,
                               !.after = { q \in DOMAIN runs :
                                             runs[q].pc = "done" }]]
    /\ UNCHANGED <<cache_refresh, scheduler,
                   data_file, engine_vars, npredictions, result, calls,
                   candidates, degraded, predictions_file, cache_file, input,
                   output>>

\* the second part: the cache is saved and the patterns are calculated
SaveAndSummarise(r) ==
    /\ runs[r].pc = "processed"
    /\ LET saved == save_cache(runs[r].cache)
       IN /\ cache_file' = saved.file
          /\ runs' = [runs EXCEPT ![r] =
                        [@ EXCEPT !.pc = "done",
                                  !.outcome = IF saved.raised THEN Raised
                                              ELSE Summary(input, runs[r].data)]]
    /\ UNCHANGED <<cache_refresh, scheduler,
                   data_file, engine_vars, npredictions, result, calls,
                   candidates, degraded, predictions_file, input, output>>

NextCache == \E r \in {1, 2} : LoadAndProcess(r) \/ SaveAndSummarise(r)

SpecCache == InitCache /\ [][NextCache]_vars

Done(r) == runs[r].pc = "done"

\* call q started after call p had returned
After(p, q) == p # q /\ Done(p) /\ runs[q].pc # "start" /\ p \in runs[q].after

Saves(r) == runs[r].pc = "processed" /\ runs'[r].pc = "done"

\* the file after the save of call r holds every entry the call had loaded,
\* as it was, and every entry the call computed
WrittenBack(r) ==
    /\ cache_file'.ok
    /\ \A key \in DOMAIN runs[r].loaded :
          /\ key \in DOMAIN cache_file'.entries
          /\ cache_file'.entries[key] = runs[r].loaded[key]
    /\ \A i \in DOMAIN runs[r].df :
          Computed(input, runs[r].df[i], runs[r].salt) # None =>
             cache_key(input, runs[r].df[i]) \in DOMAIN cache_file'.entries

\* the samples of call r are those of the cache it loaded wherever the key
\* was there
UsedVerbatim(r) ==
    \A i \in DOMAIN runs[r].df :
       cache_key(input, runs[r].df[i]) \in DOMAIN runs[r].loaded =>
          \E k \in DOMAIN runs[r].data :
             runs[r].data[k] = runs[r].loaded[cache_key(input, runs[r].df[i])]

\* C23: a derive-patterns run neither changes nor removes an entry that was
\* in the cache when it started: a key that was there gives its stored
\* sample, a missing key has its sample computed and added, and the cache
\* written back holds every earlier entry as it was and the new ones
C23_CacheOnlyGrows ==
    [][ \A r \in {1, 2} : Saves(r) => WrittenBack(r) /\ UsedVerbatim(r)
      ]_<<cache_file, runs>>

\* the same for the weather analyzer alone
WeatherCacheOnlyGrows ==
    [][ \A r \in {1, 2} :
          (input = "weather" /\ Saves(r)) => WrittenBack(r) /\ UsedVerbatim(r)
      ]_<<cache_file, runs>>

\* the keys call r added to the cache it had loaded
AddedKeys(r) == DOMAIN runs[r].cache \ DOMAIN runs[r].loaded

\* the cache file lacks an entry that one of the two calls added
EntryLost ==
    \E r \in {1, 2} :
       \E key \in AddedKeys(r) : key \notin DOMAIN load_cache(cache_file)

\* both calls have returned and each had loaded the cache before the other
\* saved it
RanConcurrently == Done(1) /\ Done(2) /\ ~After(1, 2) /\ ~After(2, 1)

\* two concurrent calls have returned and the file lacks an entry that one
\* of them added: the snapshot of the last writer replaced the other's
LostUpdate == RanConcurrently /\ EntryLost

\* C24: two derive-patterns calls on the same cache file, each reading the
\* cache, computing and writing it back without a lock, can interleave so
\* that the file lacks an entry one of them added; when one call runs after
\* the other no entry is lost
C24_SequentialRunsLoseNothing ==
    (Done(1) /\ Done(2) /\ (After(1, 2) \/ After(2, 1))) => ~EntryLost

-----------------------------------------------------------------------------
(* The explanation as a function of the factors *)

\* the factors of a prediction: the monthly factor on both sides of its
\* thresholds, date factor and recency adjustment from 1.0 up, and each
\* condition factor neutral where its sample is absent
ExplanationFactors ==
    { [monthly_factor |-> m, date_factor |-> d, recency_adjustment |-> r,
       weather_factor |-> w, stadium_factor |-> s, current_weather |-> cw] :
        m \in {0, 899, 900, 1000, 1100, 1101, 2000}, d \in {1000, 1100, 1400},
        r \in {1000, 1101, 2000}, w \in {600, 900, 1000, 1250},
        s \in {800, 1000, 1101}, cw \in {None, FairWeather} }

\* the arguments of generate_enhanced_explanation
GenericExplanationInputs ==
    { [generator |-> "enhanced", factors |-> f, pitcher_factor |-> p,
       current_pitcher_stats |-> ps, stadium_info |-> si] :
        f \in { g \in ExplanationFactors :
                  g.current_weather = None => g.weather_factor = One },
        p \in {600, 899, 1000, 1150, 1200, 1201, 2500},
        ps \in {None, GoodForm},
        si \in {None, StadiumInfo(get_stadium_characteristics("SEA"), 60)} }

\* the arguments of generate_pitcher_specific_explanation
PitcherExplanationInputs ==
    { [generator |-> "pitcher", factors |-> f, pitcher_info |-> c] :
        f \in { g \in ExplanationFactors :
                  g.current_weather = None => g.weather_factor = One },
        c \in { Candidate("Logan Gilbert", "SEA", FormStats(era, whip, 800, qs)) :
                  era \in {200, 300, 400, 550}, whip \in {95, 130, 160},
                  qs \in {0, 3} } }

ExplanationInputs ==
    { in \in GenericExplanationInputs :
        /\ in.current_pitcher_stats = None => in.pitcher_factor = One
        /\ in.stadium_info = None => in.factors.stadium_factor = One }
      \cup PitcherExplanationInputs

\* the clauses of the explanation of these arguments
ExplanationOf(in) ==
    IF in.generator = "enhanced"
    THEN generate_enhanced_explanation(
             in.factors.monthly_factor, in.factors.date_factor,
             in.factors.recency_adjustment, in.factors.weather_factor,
             in.pitcher_factor, in.factors.stadium_factor,
             in.factors.current_weather, in.current_pitcher_stats,
             in.stadium_info)
    ELSE generate_pitcher_specific_explanation(
             in.factors.monthly_factor, in.factors.date_factor,
             in.factors.recency_adjustment, in.factors.weather_factor,
             in.factors.stadium_factor, in.factors.current_weather,
             in.pitcher_info)

InitExplanation ==
    /\ data_file = Missing
    /\ InitEngine
    /\ predictions_file = NoPredictions
    /\ cache_refresh = NoSignal
    /\ scheduler = NotStarted
    /\ cache_file = NoCache
    /\ runs = <<>>
    /\ input \in ExplanationInputs
    /\ output = None

\* one call of a generator of the explanation
Explain ==
    /\ output = None
    /\ output' = [clauses |-> ExplanationOf(input)]
    /\ UNCHANGED <<cache_refresh, scheduler,
                   data_file, engine_vars, npredictions, result, calls,
                   candidates, degraded, predictions_file, cache_file, runs,
                   input>>

NextExplanation == Explain

SpecExplanation == InitExplanation /\ [][NextExplanation]_vars

Explained == output # None

\* the clauses of the explanation, as a set
Clauses == { output.clauses[i] : i \in DOMAIN output.clauses }

\* the performance factor of the call: the argument of the generic
\* generator, the factor of the selected pitcher for the other
PerformanceFactor ==
    IF input.generator = "enhanced" THEN input.pitcher_factor
    ELSE calculate_pitcher_specific_factor(input.pitcher_info)

\* the favourable and the unfavourable clauses of each category
FavourableClauses ==
    [monthly |-> {"month higher"}, date |-> {"significant date"},
     recency |-> {"longer than average"}, weather |-> {"favorable weather"},
     performance |-> {"strong pitcher form", "excellent recent form",
                      "solid recent form"},
     venue |-> {"favorable stadium", "pitcher-friendly stadium"}]

UnfavourableClauses ==
    [monthly |-> {"month lower"}, date |-> {}, recency |-> {},
     weather |-> {"challenging weather"},
     performance |-> {"concerning pitcher form", "struggling recently"},
     venue |-> {"challenging stadium", "hitter-friendly stadium"}]

CategoryFactor ==
    [monthly |-> input.factors.monthly_factor,
     date |-> input.factors.date_factor,
     recency |-> input.factors.recency_adjustment,
     weather |-> input.factors.weather_factor,
     performance |-> PerformanceFactor,
     venue |-> input.factors.stadium_factor]

Categories == DOMAIN CategoryFactor

-----------------------------------------------------------------------------
(* The decadal weights over a sequence of predictions *)

\* the decade of the target date of the last returned prediction
TargetDecade ==
    Decade((CHOOSE d \in TargetDates : strftime(d) = result.date).y)

StoredDecades == DOMAIN decadal_weights

\* every stored weight is above zero
WeightsPositive == \A dec \in StoredDecades : decadal_weights[dec] > 0

\* the stored weights add up to 1; each weight is cut to a thousandth, so the
\* sum falls short of 1000 by less than one thousandth per decade
WeightsSumToOne ==
    LET total == SetSum(decadal_weights, StoredDecades)
    IN total <= One /\ total > One - Cardinality(StoredDecades)

\* a more recent decade never has a smaller weight than an older one
WeightsMonotone ==
    \A older, recent \in StoredDecades :
        older < recent => decadal_weights[older] <= decadal_weights[recent]

\* the decadal factor of the returned prediction is the stored weight of the
\* decade of its target date
FactorIsTargetWeight ==
    /\ TargetDecade \in StoredDecades
    /\ result.factors.decadal_factor = decadal_weights[TargetDecade]

\* C26: once calculate_decadal_weights has run on the engine, after any
\* sequence of predictions, the stored decadal weights are positive and sum
\* to 1, a more recent decade never weighs less than an older one, and the
\* decadal factor of a returned prediction is the weight of the decade of
\* its target date
C26_DecadalWeightsNormalisedAndOrdered ==
    /\ StoredDecades # {} =>
          WeightsPositive /\ WeightsSumToOne /\ WeightsMonotone
    /\ HasReturned => FactorIsTargetWeight

\* the part that holds along every sequence of predictions: every division
\* by the total leaves positive weights that sum to 1
DecadalWeightsNormalised ==
    StoredDecades # {} => WeightsPositive /\ WeightsSumToOne

-----------------------------------------------------------------------------
(* The pairings of the synthetic generator *)

\* the call fell through to the synthetic generator
SyntheticUsed ==
    Selected /\ output.calls = <<"schedule", "mysportsfeeds", "simulated">>

\* the two teams of every candidate of a list
Pairings(pitchers) ==
    { {pitchers[i].team, pitchers[i].opponent} : i \in DOMAIN pitchers }

\* what a second invocation for the same date can return: the generator
\* seeded with the same ordinal draws the same number of games and the same
\* shuffle; the coins and the per-team draws follow the re-seeding of
\* generate_pitcher_info
SecondInvocations ==
    { get_simulated_pitchers_for_date(
          Seed(input.seed.num_games, input.seed.shuffled, coin, shift)) :
        coin \in BOOLEAN, shift \in 0 .. 2 }

\* C27: the synthetic generator returns between 8 and 12 candidates, one per
\* pairing; no team is paired with itself, no team occurs in two pairings
\* (as the pitcher's team or as the opponent), and a second invocation for
\* the same date returns as many pairings over the same teams
C27_PairingsDisjointAndRepeatable ==
    SyntheticUsed =>
      LET p == output.pitchers
      IN /\ Len(p) \in 8 .. 12
         /\ Cardinality(Pairings(p)) = Len(p)
         /\ \A i \in DOMAIN p : p[i].team # p[i].opponent
         /\ \A i, j \in DOMAIN p :
               i # j => {p[i].team, p[i].opponent}
                           \cap {p[j].team, p[j].opponent} = {}
         /\ \A q \in SecondInvocations :
               Len(q) = Len(p) /\ Pairings(q) = Pairings(p)

\* twelve pairings were generated and the coin of the first made the team
\* popped second the home team
C27_Witness ==
    /\ SyntheticUsed
    /\ Len(output.pitchers) = 12
    /\ output.pitchers[1].team = "SD"
    /\ output.pitchers[1].opponent = "SF"

-----------------------------------------------------------------------------
(* The consistency of a returned result *)

\* the eight reported factors multiplied left to right
ReportedProduct ==
    LET fs == result.factors
    IN Mul(Mul(Mul(Mul(Mul(Mul(Mul(fs.base_rate, fs.monthly_factor),
                               fs.date_factor), fs.decadal_factor),
                       fs.recency_adjustment), fs.weather_factor),
           fs.pitcher_factor), fs.stadium_factor)

\* the positions of the reported selected pitcher among the candidates
ReportedPositions ==
    { i \in DOMAIN candidates :
        /\ result.selected_pitcher =
              [name |-> candidates[i].name, team |-> candidates[i].team,
               opponent |-> candidates[i].opponent,
               stadium |-> candidates[i].stadium]
        /\ result.current_conditions.pitcher_stats = candidates[i].stats }

\* C28: in every returned result the probability is the product of the eight
\* reported factors clamped to the floor and the cap of the path taken, the
\* percentage is the probability times 100, the reported pitcher and stadium
\* factors are those of the reported selected pitcher, and the confidence
\* interval is the one computed from the reported probability
C28_ReportedValuesConsistent ==
    HasReturned =>
      /\ CandidateSelected =>
            /\ result.probability =
                  Max(Min(ReportedProduct, PitcherCap), PitcherFloor)
            /\ \E i \in ReportedPositions :
                  /\ result.factors.pitcher_factor =
                        calculate_pitcher_specific_factor(candidates[i])
                  /\ result.factors.stadium_factor =
                        calculate_pitcher_stadium_factor(candidates[i])
      /\ GenericUsed =>
            result.probability =
                Max(Min(ReportedProduct, GenericCap), GenericFloor)
      /\ result.probability_percent = result.probability * 100
      /\ result.confidence_interval =
            calculate_confidence_interval(result.probability, Noise)

\* a candidate later than the first superseded the best so far, and its
\* probability lies strictly between the floor and the cap
C28_Witness ==
    /\ CandidateSelected
    /\ 1 \notin ReportedPositions
    /\ result.probability > PitcherFloor
    /\ result.probability < PitcherCap
    /\ result.factors.stadium_factor # One

-----------------------------------------------------------------------------
(* The scheduler *)

\* is_mlb_season() as it would be with the season opening in March
is_mlb_season_from_march(today) == 3 <= today.m /\ today.m <= 10

\* is_mlb_season(): 4 <= date.month <= 10, on the date of the clock
is_mlb_season(today) == 4 <= today.m /\ today.m <= 10

\* the steps of run_daily_prediction after the season check, in order
RunSteps ==
    <<"update_data", "predict_probability", "save_prediction",
      "clear_web_cache">>

\* clear_web_cache(): the signal file afterwards; a failure of the write is
\* logged inside
clear_web_cache(file, now, raises) == IF raises THEN file ELSE Signal(now)

\* the entry of the file for a prediction, shown by its date and probability
Entry(prediction) ==
    [date |-> prediction.date, probability |-> prediction.probability,
     timestamp |-> 0]

\* the files the run reads and writes
Files ==
    [data_file |-> data_file, predictions_file |-> predictions_file,
     cache_refresh |-> cache_refresh]

\* a faulty variant of the except clause: the refresh signal is written there
CaughtAndSignalled(files, call, steps, now) ==
    [data_file |-> files.data_file,
     predictions_file |-> files.predictions_file,
     cache_refresh |-> Signal(now), call |-> call,
     steps |-> steps, raised |-> steps[Len(steps)], propagated |-> FALSE]

\* the except clause of run_daily_prediction: the last step raised, the
\* error is logged and the routine returns
Caught(files, call, steps, now) ==
    [data_file |-> files.data_file,
     predictions_file |-> files.predictions_file,
     cache_refresh |-> files.cache_refresh, call |-> call,
     steps |-> steps, raised |-> steps[Len(steps)], propagated |-> FALSE]

\* the routine returned from inside the try
Finished(files, call, steps) ==
    [data_file |-> files.data_file,
     predictions_file |-> files.predictions_file,
     cache_refresh |-> files.cache_refresh, call |-> call,
     steps |-> steps, raised |-> "none", propagated |-> FALSE]

\* run_daily_prediction() on the day today at the time now: env is what the
\* outside world answers during the prediction, fault the step whose write
\* fails, or "data_lost" when the data file is gone by the time the
\* prediction reads it.  The value holds the files afterwards, the outcome of the call of
\* the engine, the steps made and the step that raised.
run_daily_prediction(self, files, today, now, env, fault) ==
    IF ~is_mlb_season(today) THEN Finished(files, None, <<>>)
    ELSE IF fault = "update_data"
    THEN Caught(files, None, SubSeq(RunSteps, 1, 1), now)
    ELSE
      Call(LAMBDA updated :
        Call(LAMBDA r :
          IF r.result.status = "raised"
          THEN Caught(updated, r, SubSeq(RunSteps, 1, 2), now)
          ELSE IF fault = "save_prediction"
          THEN Caught(updated, r, SubSeq(RunSteps, 1, 3), now)
          ELSE Finished(
                 [data_file |-> updated.data_file,
                  predictions_file |->
                      save_prediction(updated.predictions_file,
                                      Entry(r.result), now),
                  cache_refresh |->
                      clear_web_cache(updated.cache_refresh, now,
                                      fault = "clear_web_cache")],
                 r, RunSteps),
          select_best_pitcher_for_date(self, updated.data_file, env)),
        [files EXCEPT !.data_file = IF fault = "data_lost" THEN Missing
                                    ELSE update_data])

\* the days of the clock: the last day before the season, two days of the
\* season, and the first day after it
SchedulerDays ==
    {Date(2025, 3, 31), Date(2025, 11, 1)} \cup TargetDates

SchedulerFaults ==
    {"none", "update_data", "data_lost", "save_prediction", "clear_web_cache"}

\* the outside world on a day: every source answers, or the weather lookup
\* of the prediction raises
SchedulerEnvs(today) ==
    { Env(today, failure, [schedule |-> TwoPitcherSchedule, msf |-> Raised]) :
        failure \in { <<{}, {}>>, <<{}, {"weather"}>> } }

\* a file holding the prediction of one day of the season
OneDayFile ==
    Stored(strftime(Date(2025, 4, 27)) :>
             [date |-> strftime(Date(2025, 4, 27)), probability |-> 1242,
              timestamp |-> 0])

InitScheduler ==
    /\ data_file \in {Missing, update_data}
    /\ InitEngine
    /\ predictions_file \in {NoPredictions, OneDayFile}
    /\ cache_refresh = NoSignal
    /\ scheduler = NotStarted
    /\ cache_file = NoCache
    /\ runs = <<>>
    /\ input = None
    /\ output = None

\* the state after a call of run_daily_prediction with the outcome o
Ran(o) ==
    /\ data_file' = o.data_file
    /\ predictions_file' = o.predictions_file
    /\ cache_refresh' = o.cache_refresh
    /\ IF o.call = None
       THEN UNCHANGED <<engine_vars, npredictions, result, calls, candidates,
                        degraded>>
       ELSE /\ weather_patterns' = o.call.self.weather_patterns
            /\ pitcher_patterns' = o.call.self.pitcher_patterns
            /\ stadium_patterns' = o.call.self.stadium_patterns
            /\ base_rate' = o.call.self.base_rate
            /\ monthly_factors' = o.call.self.monthly_factors
            /\ date_factors' = o.call.self.date_factors
            /\ decadal_weights' = o.call.self.decadal_weights
            /\ result' = o.call.result
            /\ calls' = o.call.calls
            /\ candidates' = o.call.probable_pitchers
            /\ degraded' = o.call.degraded
            /\ npredictions' = npredictions + 1

\* what the scheduler remembers of its last step
Position(called, ran, today, now, o) ==
    [started |-> TRUE, called |-> called, ran |-> ran, today |-> today,
     now |-> now, steps |-> o.steps, raised |-> o.raised,
     propagated |-> o.propagated]

\* start_scheduler() up to its loop: the initial prediction
StartScheduler ==
    \E today \in SchedulerDays, now \in Clock, fault \in SchedulerFaults :
      \E env \in SchedulerEnvs(today) :
        /\ ~scheduler.started
        /\ IF /\ strftime(today) \notin DOMAIN load_predictions(predictions_file)
              /\ is_mlb_season(today)
           THEN \E o \in { run_daily_prediction(Self, Files, today, now,
                                                env, fault) } :
                  /\ Ran(o)
                  /\ scheduler' = Position("start_scheduler", TRUE, today,
                                           now, o)
           ELSE /\ scheduler' =
                      Position("start_scheduler", FALSE, today, now,
                               Finished(Files, None, <<>>))
                /\ UNCHANGED <<data_file, predictions_file, cache_refresh,
                               engine_vars, npredictions, result, calls,
                               candidates, degraded>>
        /\ UNCHANGED <<cache_file, runs, input, output>>

\* run_daily_prediction() as the loop of the scheduler calls it at 06:00
\* and at 07:00
RunDailyPrediction ==
    \E today \in SchedulerDays, now \in Clock, fault \in SchedulerFaults :
      \E env \in SchedulerEnvs(today) :
        /\ scheduler.started
        /\ npredictions < MaxPredictions
        /\ \E o \in { run_daily_prediction(Self, Files, today, now, env,
                                           fault) } :
              /\ Ran(o)
              /\ scheduler' = Position("run_daily_prediction", TRUE, today,
                                       now, o)
        /\ UNCHANGED <<cache_file, runs, input, output>>

NextScheduler == StartScheduler \/ RunDailyPrediction

SpecScheduler == InitScheduler /\ [][NextScheduler]_vars

\* the date lies outside the season: before April or after October
OffSeason(today) == today.m < 4 \/ today.m > 10

\* nothing the routine works on changed in the step
NothingChanged ==
    /\ data_file' = data_file
    /\ npredictions' = npredictions
    /\ predictions_file' = predictions_file
    /\ cache_refresh' = cache_refresh

\* C29: outside the season a call of run_daily_prediction makes no step and
\* changes nothing: the data file, the number of predictions made, the
\* stored predictions and the refresh signal are as before; and
\* start_scheduler runs the initial prediction only when the season is on
\* and the file holds no prediction under today's date
C29_OffSeasonChangesNothing ==
    [][ /\ (scheduler'.called = "run_daily_prediction"
              /\ OffSeason(scheduler'.today)) =>
             scheduler'.steps = <<>> /\ NothingChanged
        /\ scheduler'.called = "start_scheduler" =>
             /\ scheduler'.ran =>
                  /\ ~OffSeason(scheduler'.today)
                  /\ strftime(scheduler'.today)
                       \notin StoredKeys(predictions_file)
             /\ ~scheduler'.ran => NothingChanged
      ]_scheduler

\* the routine was called after the season, with a prediction stored and a
\* signal written by an earlier run, and made no step
C29_Witness ==
    /\ scheduler.started
    /\ scheduler.called = "run_daily_prediction"
    /\ scheduler.today = Date(2025, 11, 1)
    /\ scheduler.steps = <<>>
    /\ cache_refresh # NoSignal
    /\ StoredKeys(predictions_file) # {}

\* the steps the last run made are the first steps of the routine, in order
StepsInOrder(steps) ==
    Len(steps) <= Len(RunSteps) /\ steps = SubSeq(RunSteps, 1, Len(steps))

\* the file holds the prediction of the run's day with the time of the run
SavedByRun(file, run) ==
    /\ file.ok
    /\ strftime(run.today) \in StoredKeys(file)
    /\ file.predictions[strftime(run.today)].timestamp = run.now

\* C30: a call of run_daily_prediction never lets an error through; its
\* steps are made in the order data update, prediction, save, refresh
\* signal; the signal is written only in a run that reached its last step
\* with its prediction saved; and when the data update or the prediction
\* raised, the stored predictions and the signal are as before
C30_RunNeverPropagatesAndKeepsOrder ==
    [][ scheduler'.ran =>
          /\ ~scheduler'.propagated
          /\ StepsInOrder(scheduler'.steps)
          /\ cache_refresh' # cache_refresh =>
                /\ scheduler'.steps = RunSteps
                /\ scheduler'.raised = "none"
                /\ SavedByRun(predictions_file', scheduler')
          /\ scheduler'.raised \in {"update_data", "predict_probability"} =>
                /\ predictions_file' = predictions_file
                /\ cache_refresh' = cache_refresh
          /\ scheduler'.raised = "save_prediction" =>
                cache_refresh' = cache_refresh
      ]_scheduler

\* the prediction of the last run raised after the data update, with a
\* prediction stored and a signal written by an earlier run
C30_Witness ==
    /\ scheduler.started
    /\ scheduler.ran
    /\ scheduler.raised = "predict_probability"
    /\ scheduler.steps = <<"update_data", "predict_probability">>
    /\ result.status = "raised"
    /\ cache_refresh # NoSignal
    /\ StoredKeys(predictions_file) # {}

=============================================================================
